---- MODULE Spec2Model ----
(***************************************************************************)
(* A model of the editing core of src/level_editor.py: the entity registry *)
(* of the current scene cell, the selection, the undo log (class Undo),    *)
(* the manipulators that write to it, and the structural operations        *)
(* (spawn, paste, duplicate, delete, group).                               *)
(*                                                                         *)
(* Transforms are abstracted to three integer components (position,       *)
(* rotation, scale) that compose additively along the parent chain: an     *)
(* entity's world transform is its local transform plus its parent's world *)
(* transform, and the identity transform is <<0, 0, 0>>.                   *)
(***************************************************************************)
EXTENDS Integers, Sequences, FiniteSets, TLC

\* ---------------------------------------------------------------- bounds
\* Number of entity objects that can be referenced at the same time.
MaxIds == 3
\* Largest value of a transform component a drag may reach.
MaxT == 1
\* Longest undo log the model lets the recorders build.
MaxLog == 2
\* Most data rows in the scene file found at start-up.
MaxRows == 3
\* Most entities a copy puts on the clipboard.
MaxClip == 1
\* Most input events handled in a run of the manipulators.
MaxSteps == 7
\* Most input events handled in a run of the structural tools.
MaxEdits == 6
\* Longest selection the hierarchy panel's control+click builds.
MaxSel == 2
\* events of a run through the undo keys on a cell without a file
MaxReplay == 10

\* Farthest the helper of the edge-scale tool is dragged, in units.
MaxDrag == 2
\* Control points of a PokeShape (its default_values hold four).
MaxPoints == 4

Ids == 1..MaxIds
NoEntity == 0
\* BoxGizmo.helper: an object of the editor, never an entity of a registry.
Helper == MaxIds + 1
\* PokeShape._point_gizmos: the control-point entities of the one PokeShape
\* of a run. They are in the registry while the shape is in edit mode,
\* selectable and without a collider whenever they are in it.
PointIds == (MaxIds + 2)..(MaxIds + 1 + MaxPoints)

\* ---------------------------------------------------------------- values
Shaders == {"lit_with_shadows_shader", "triplanar_shader"}

T(p, r, s) == [pos |-> p, rot |-> r, scl |-> s]
Identity == T(0, 0, 0)
TAdd(a, b) == T(a.pos + b.pos, a.rot + b.rot, a.scl + b.scl)
TSub(a, b) == T(a.pos - b.pos, a.rot - b.rot, a.scl - b.scl)
InRange(t) == /\ t.pos \in -MaxT..MaxT
              /\ t.rot \in -MaxT..MaxT
              /\ t.scl \in -MaxT..MaxT

\* Nodes of the scene graph an entity can be parented to.
Node(k) == [kind |-> k, id |-> NoEntity]
EntNode(i) == [kind |-> "entity", id |-> i]
Scene == Node("scene")
SceneParent == Node("scene_parent")
Editor == Node("LEVEL_EDITOR")

NoSnap == [set |-> FALSE, t |-> Identity]
Snap(t) == [set |-> TRUE, t |-> t]

\* An entity object that is not referenced from anywhere.
FreeEnt == [class |-> "Entity", wt |-> Identity, shader |-> "lit_with_shadows_shader",
            parent |-> Scene, original_parent |-> Scene,
            collider_type |-> "unset",
            snap |-> NoSnap, gsnap |-> NoSnap, selectable |-> TRUE,
     edit_mode |-> FALSE, alive |-> FALSE]

VARIABLES
    current_scene,  \* LEVEL_EDITOR.current_scene is set
    scene_parent,   \* the cell's scene_parent is set
    path,           \* the cell's path is set
    file_rows,      \* the data rows of the cell's file
    entities,       \* the registry: current_scene.entities
    selection,      \* current_scene.selection
    ent,            \* the attributes of every entity object
    undo_data,      \* Undo.undo_data
    undo_index,     \* Undo.undo_index
    session,        \* the manipulators' and tools' own fields
    clipboard,      \* the recipes on the clipboard
    last            \* the handler that ran last, and what it saw

vars == <<current_scene, scene_parent, path, file_rows, entities, selection,
          ent, undo_data, undo_index, session, clipboard, last>>

\* ------------------------------------------------------- list operations
\* Python's list.index, counted from 1; 0 when x is absent (ValueError).
RECURSIVE IndexFrom(_, _, _)
IndexFrom(seq, x, k) ==
    IF k > Len(seq) THEN 0
    ELSE IF seq[k] = x THEN k ELSE IndexFrom(seq, x, k + 1)

IndexOf(seq, x) == IndexFrom(seq, x, 1)

InSeq(seq, x) == \E k \in 1..Len(seq) : seq[k] = x

SeqSet(seq) == {seq[k] : k \in 1..Len(seq)}

\* Python's list.remove: the first occurrence only.
RemoveFirst(seq, x) ==
    LET k == IndexOf(seq, x)
    IN  IF k = 0 THEN seq
        ELSE SubSeq(seq, 1, k - 1) \o SubSeq(seq, k + 1, Len(seq))

\* Python's list.insert(i, x), i counted from 0: past the end it appends.
InsertAt(seq, i, x) ==
    LET k == IF i > Len(seq) THEN Len(seq) ELSE i
    IN  SubSeq(seq, 1, k) \o <<x>> \o SubSeq(seq, k + 1, Len(seq))

\* ------------------------------------------------------------ scene graph
\* node is on the parent chain of entity j.
RECURSIVE ChainHas(_, _, _, _)
ChainHas(m, j, node, depth) ==
    IF depth = 0 THEN FALSE
    ELSE IF m[j].parent = node THEN TRUE
    ELSE IF m[j].parent.kind = "entity"
         THEN ChainHas(m, m[j].parent.id, node, depth - 1)
         ELSE FALSE

\* The entities below a node: they move when the node moves.
Under(m, node) == {j \in Ids : ChainHas(m, j, node, MaxIds)}

Family(m, i) == {i} \cup Under(m, EntNode(i))

\* Every entity of S moves by d in world space.
Move(m, S, d) == [j \in Ids |-> IF j \in S THEN [m[j] EXCEPT !.wt = TAdd(@, d)] ELSE m[j]]

\* entity.world_transform = t: the entity's children follow it.
SetWorld(m, i, t) == Move(m, Family(m, i), TSub(t, m[i].wt))

ParentWorld(m, i) ==
    IF m[i].parent.kind = "entity" THEN m[m[i].parent.id].wt ELSE Identity

\* entity.world_parent = node: the world transform is kept.
Reparent(m, i, node) == [m EXCEPT ![i].parent = node]

\* destroy(entity): the entity and its children leave the scene graph.
Destroy(m, i) == [j \in Ids |-> IF j \in Family(m, i) THEN [m[j] EXCEPT !.alive = FALSE] ELSE m[j]]

\* repr(entity): the changed attributes an Entity prints, its transform
\* relative to its parent among them.
Repr(m, i) == [class |-> m[i].class, t |-> TSub(m[i].wt, ParentWorld(m, i)),
               shader |-> m[i].shader, collider_type |-> ""]

\* f"'{e.collider_type}'" on an entity that has the attribute: str() of
\* the value between quotes. "None" stands for None, "'None'" for the
\* string 'None', "unset" for an entity without the attribute.
Quoted(v) == IF v = "unset" THEN "" ELSE "'" \o (IF v = "'None'" THEN "None" ELSE v) \o "'"

\* eval(recipe): a new Entity under the scene root.
Eval(recipe) == [class |-> recipe.class, wt |-> recipe.t, shader |-> recipe.shader,
                 parent |-> Scene, original_parent |-> Node("unset"),
                 collider_type |-> IF recipe.collider_type = "" THEN "unset"
                                   ELSE recipe.collider_type,
                 snap |-> NoSnap, gsnap |-> NoSnap, selectable |-> TRUE,
     edit_mode |-> FALSE, alive |-> TRUE]

\* ------------------------------------------------------- object identity
SessionIds(s) ==
    ({s.grab, s.qrot, s.rtv, s.spawn, s.box} \cup SeqSet(s.clones)) \ {NoEntity}

NodeIds(n) == IF n.kind = "entity" THEN {n.id} ELSE {}

RECURSIVE Close(_, _, _)
Close(m, S, n) ==
    IF n = 0 THEN S
    ELSE Close(m, S \cup UNION {NodeIds(m[j].parent) \cup NodeIds(m[j].original_parent) : j \in S}, n - 1)

\* The entity objects something still refers to.
InUse(reg, sel, m, s) ==
    Close(m, (SeqSet(reg) \cup SeqSet(sel) \cup SessionIds(s)) \cap Ids, MaxIds)

\* Objects nothing refers to are collected.
Collect(reg, sel, m, s) ==
    [j \in Ids |-> IF j \in InUse(reg, sel, m, s) THEN m[j] ELSE FreeEnt]

Min(S) == CHOOSE x \in S : \A y \in S : x <= y

\* The identity a newly constructed object gets.
Fresh(used) == Min(Ids \ used)

\* ------------------------------------------------------------ undo records
\* A value an attribute-change entry holds: a transform, or a shader name.
TVal(t) == [t |-> t, shader |-> ""]
SVal(sh) == [t |-> Identity, shader |-> sh]

Change(i, a, old, new) == [id |-> i, attr |-> a, old |-> old, new |-> new]

\* A list of (index, attribute, old, new) entries.
Changes(cs) == [kind |-> "changes", ids |-> <<>>, recipes |-> <<>>, changes |-> cs]

\* ('restore entities' | 'delete entities', indices, recipes)
Structural(k, ids, recipes) == [kind |-> k, ids |-> ids, recipes |-> recipes, changes |-> <<>>]

\* The recorders stop when the log is MaxLog long.
CanRecord == undo_index + 1 < MaxLog

\* record_undo without the truncation of the undone entries.
record_undo_keeping(log, idx, data) ==
    [log |-> Append(log, data), idx |-> idx + 1]

\* Undo.record_undo
record_undo(log, idx, data) ==
    [log |-> Append(SubSeq(log, 1, idx + 1), data), idx |-> idx + 1]

\* setattr(LEVEL_EDITOR.entities[id], attr, value) inside its own try block.
SetAttr(reg, m, id, attr, v) ==
    IF id >= Len(reg) THEN m
    ELSE LET e == reg[id + 1]
         IN  IF ~m[e].alive THEN m
             ELSE IF attr = "world_transform" THEN SetWorld(m, e, v.t)
             ELSE IF attr = "world_position"
                  THEN SetWorld(m, e, [m[e].wt EXCEPT !.pos = v.t.pos])
             ELSE [m EXCEPT ![e].shader = v.shader]

\* The loop over the entries of an attribute-change record.
RECURSIVE ApplyChanges(_, _, _, _, _)
ApplyChanges(reg, m, cs, k, forward) ==
    IF k > Len(cs) THEN m
    ELSE ApplyChanges(reg,
                      SetAttr(reg, m, cs[k].id, cs[k].attr,
                              IF forward THEN cs[k].new ELSE cs[k].old),
                      cs, k + 1, forward)

\* The clone the restore loops build from a recipe.
RestoredClone(recipe) ==
    [Eval(recipe) EXCEPT !.original_parent = Scene,
                         !.shader = "lit_with_shadows_shader"]

\* for id, recipe in zip(indices, recipes): insert the clone at id.
RECURSIVE InsertClones(_, _, _, _, _, _)
InsertClones(reg, m, used, ids, recipes, k) ==
    IF k > Len(ids) THEN [reg |-> reg, m |-> m]
    ELSE LET c == Fresh(used)
         IN  InsertClones(InsertAt(reg, ids[k], c),
                          [m EXCEPT ![c] = RestoredClone(recipes[k])],
                          used \cup {c}, ids, recipes, k + 1)

RECURSIVE RemoveAll(_, _, _)
RemoveAll(seq, targets, k) ==
    IF k > Len(targets) THEN seq
    ELSE RemoveAll(RemoveFirst(seq, targets[k]), targets, k + 1)

RECURSIVE DestroyAll(_, _, _)
DestroyAll(m, targets, k) ==
    IF k > Len(targets) THEN m
    ELSE DestroyAll(Destroy(m, targets[k]), targets, k + 1)

\* The branch of undo/redo that removes the entities at the saved indices.
RemoveTargets(reg, sel, m, ids) ==
    IF \E k \in 1..Len(ids) : ids[k] >= Len(reg)
    THEN [reg |-> reg, sel |-> sel, m |-> m]
    ELSE LET targets == [k \in 1..Len(ids) |-> reg[ids[k] + 1]]
         IN  [reg |-> RemoveAll(reg, targets, 1),
              sel |-> RemoveAll(sel, targets, 1),
              m |-> DestroyAll(m, targets, 1)]

\* The body of undo/redo after the guard, on record d.
Replay(reg, sel, m, used, d, forward) ==
    IF d.kind = (IF forward THEN "delete entities" ELSE "restore entities")
    THEN LET r == InsertClones(reg, m, used, d.ids, d.recipes, 1)
         IN  [reg |-> r.reg, sel |-> sel, m |-> r.m]
    ELSE IF d.kind = (IF forward THEN "restore entities" ELSE "delete entities")
    THEN RemoveTargets(reg, sel, m, d.ids)
    ELSE [reg |-> reg, sel |-> sel, m |-> ApplyChanges(reg, m, d.changes, 1, forward)]

\* The clones a replay of d constructs.
ClonesNeeded(d, forward) ==
    IF d.kind = (IF forward THEN "delete entities" ELSE "restore entities")
    THEN Len(d.ids) ELSE 0

UndoGuard(idx) == idx < 0

RedoGuard(log, idx) == idx + 2 > Len(log)

\* undo that moves the cursor even when nothing is applied.
undo_past_start(reg, sel, m, used, log, idx) ==
    IF UndoGuard(idx)
    THEN [reg |-> reg, sel |-> sel, m |-> m, idx |-> idx - 1]
    ELSE LET r == Replay(reg, sel, m, used, log[idx + 1], FALSE)
         IN  [reg |-> r.reg, sel |-> r.sel, m |-> r.m, idx |-> idx - 1]

\* Undo.undo
undo(reg, sel, m, used, log, idx) ==
    IF UndoGuard(idx)
    THEN [reg |-> reg, sel |-> sel, m |-> m, idx |-> idx]
    ELSE LET r == Replay(reg, sel, m, used, log[idx + 1], FALSE)
         IN  [reg |-> r.reg, sel |-> r.sel, m |-> r.m, idx |-> idx - 1]

\* redo that moves the cursor even when nothing is applied.
redo_past_end(reg, sel, m, used, log, idx) ==
    IF RedoGuard(log, idx)
    THEN [reg |-> reg, sel |-> sel, m |-> m, idx |-> idx + 1]
    ELSE LET r == Replay(reg, sel, m, used, log[idx + 2], TRUE)
         IN  [reg |-> r.reg, sel |-> r.sel, m |-> r.m, idx |-> idx + 1]

\* Undo.redo
redo(reg, sel, m, used, log, idx) ==
    IF RedoGuard(log, idx)
    THEN [reg |-> reg, sel |-> sel, m |-> m, idx |-> idx]
    ELSE LET r == Replay(reg, sel, m, used, log[idx + 2], TRUE)
         IN  [reg |-> r.reg, sel |-> r.sel, m |-> r.m, idx |-> idx + 1]

\* ----------------------------------------------------------------- state
\* QuickGrabber's axis_lock with the target's position on a locked axis, in
\* quarters of a unit: y0 as _original_world_position has it, y as it is;
\* nudged: the pointer has taken the target less than 0.1 away from where
\* the whole steps put it.
NoLock == [on |-> FALSE, y0 |-> 0, y |-> 0, nudged |-> FALSE]

\* BoxGizmo's scale session along the scaled axis, lengths in quarters of a
\* unit: normal is the sign of mouse.normal, center is scale_from_center,
\* a and s the scaler's world position and world scale, h the helper's world
\* position, pos the target's world position, and num / den the target's
\* scale under the scaler.
NoEdge == [on |-> FALSE, normal |-> 1, center |-> FALSE, a |-> 0, s |-> 4,
           h |-> 0, pos |-> 0, num |-> 1, den |-> 1]

\* MenuHandler as constructed: _state is None ("unset"), the asset menus
\* are disabled and the Entity() of the 'None' state is enabled.
NoMenu == [state |-> "unset", enabled |-> {"None"}]

\* The MER2 editor before a scene is loaded: no object, nothing selected,
\* and the stacks empty. position is the object's position along one axis,
\* _last_state the 'pos' entry of its DebugBehaviour as __init__ sets it,
\* dragging the flag of its TransformGizmo.
NoMer == [objects |-> FALSE, selected |-> FALSE, position |-> 0, _last_state |-> 0,
          dragging |-> FALSE, undo_stack |-> <<>>, redo_stack |-> <<>>]

NoSession == [arrow |-> FALSE, rot |-> FALSE, scale |-> FALSE,
              grab |-> NoEntity, qrot |-> NoEntity, clear |-> FALSE,
              rtv |-> NoEntity, rtv_parent |-> Scene, selector |-> TRUE,
              box |-> NoEntity,
              sbox |-> [visible |-> FALSE, x |-> 0, mode |-> "new"],
              lock |-> NoLock,
              spawn |-> NoEntity, clones |-> <<>>, plane |-> FALSE,
              coordinates |-> <<0, 0>>, edge |-> NoEdge, menu |-> NoMenu,
              mer |-> NoMer]

\* The k-th data row of the scene file: the class column (the second row
\* names a class that is not imported, the third one whose constructor
\* raises on the row), the position column (neighbouring rows differ in
\* it), and empty shader and collider_type columns.
Row(k) == [class |-> IF k = 2 THEN "Unknown" ELSE IF k = 3 THEN "Raising" ELSE "Entity",
           t |-> T((k - 1) % (MaxT + 1), 0, 0), shader |-> "", collider_type |-> ""]

\* The files that can be found at start-up.
RowSeqs == {[k \in 1..n |-> Row(k)] : n \in 0..MaxRows}

\* The world transforms of the registry's entities, by registry index.
Transforms(reg, m) == [k \in 1..Len(reg) |-> m[reg[k]].wt]

RECURSIVE SumPos(_, _, _)
SumPos(m, sel, k) == IF k > Len(sel) THEN 0 ELSE m[sel[k]].wt.pos + SumPos(m, sel, k + 1)

\* LevelEditor.render_selection: the world position it gives the gizmo when
\* the selection is not empty, as a fraction num / den.
GizmoPosition(sel, m, origin) ==
    IF origin = "center"
    THEN [num |-> SumPos(m, sel, 1), den |-> Len(sel)]
    ELSE [num |-> m[sel[Len(sel)]].wt.pos, den |-> 1]

\* No manipulator or tool session is engaged.
Idle(s) == /\ ~s.arrow /\ ~s.rot /\ ~s.scale /\ ~s.plane
           /\ s.grab = NoEntity /\ s.qrot = NoEntity
           /\ s.rtv = NoEntity /\ s.spawn = NoEntity /\ s.box = NoEntity

\* History kept for stating properties; the program has no such field.
\*   op, idx, len: the handler that ran last, and the cursor and log length
\*                 it found;
\*   base:         the registry's transforms and parents at the engage of
\*                 the session that is engaged or was released last;
\*   eng:          the registry's transforms and parents and the selection
\*                 at the engage of the session that is engaged, kept
\*                 through every event up to its release;
\*   run:          a run of n released edits followed by k undos, and the
\*                 registry's transforms before the first of the edits;
\*   sel0:         the selection before the press that began the last
\*                 box-select;
\*   pivot:        the rotation the last event gave the manipulator pivot,
\*                 with the menu values it read;
\*   anchor:       once a menu value has changed, the origin mode and the
\*                 position the gizmo has from the last render_selection() of
\*                 a menu change, a click, control+a or a spawn;
\*   steps:        the number of events handled.
NoBase == [set |-> FALSE, t |-> <<>>, p |-> <<>>]
NoEngage == [set |-> FALSE, t |-> <<>>, s |-> <<>>, p |-> <<>>]
NoPivot == [set |-> FALSE, origin |-> "last", frame |-> "global", rot |-> 0]
NoAnchor == [set |-> FALSE, origin |-> "last", num |-> 0, den |-> 1]
NoRun == [on |-> FALSE, n |-> 0, k |-> 0, start |-> <<>>]

ReleaseOps == {"arrow_drop", "rotation_drop", "scale_drop", "quick_rotate_release",
               "quick_scale_release", "grab_release", "rtv_release",
               "duplicator_release", "box_stop"}

Did(op) == [op |-> op, idx |-> undo_index, len |-> Len(undo_data),
            base |-> NoBase, run |-> NoRun, sel0 |-> last.sel0,
            pivot |-> NoPivot, eng |-> last.eng, anchor |-> last.anchor,
            steps |-> last.steps + 1]

\* An event whose handler ends in render_selection(), which finds sel.
DidRender(op, sel, m) ==
    [Did(op) EXCEPT
        !.anchor = IF last.anchor.set /\ sel # <<>>
                   THEN [set |-> TRUE, origin |-> last.anchor.origin,
                         num |-> GizmoPosition(sel, m, last.anchor.origin).num,
                         den |-> GizmoPosition(sel, m, last.anchor.origin).den]
                   ELSE last.anchor]

\* The run has events left.
Budget == last.steps < MaxSteps

EditBudget == last.steps < MaxEdits

ReplayBudget == last.steps < MaxReplay

\* An engage: the session starts from rest, possibly after earlier edits.
DidEngage(op) ==
    IF Idle(session)
    THEN [Did(op) EXCEPT
             !.base = [set |-> TRUE, t |-> Transforms(entities, ent),
                       p |-> [k \in 1..Len(entities) |-> ent[entities[k]].parent]],
             !.eng = [set |-> TRUE, t |-> Transforms(entities, ent), s |-> selection,
                      p |-> [k \in 1..Len(entities) |-> ent[entities[k]].parent]],
             !.run = IF last.run.on /\ last.run.k = 0 /\ last.op \in ReleaseOps
                     THEN last.run
                     ELSE [on |-> TRUE, n |-> 0, k |-> 0,
                           start |-> Transforms(entities, ent)]]
    ELSE Did(op)

\* An update tick of the engaged session.
DidUpdate(op) == [Did(op) EXCEPT !.base = last.base, !.run = last.run]

\* A release: the edit counts when it leaves a net change.
DidRelease(op) ==
    [Did(op) EXCEPT
        !.eng = NoEngage,
        !.base = IF last.op \in ReleaseOps THEN NoBase ELSE last.base,
        !.run = IF last.base.set /\ last.run.on /\ last.op \notin ReleaseOps
                   /\ Transforms(entities, ent) # last.base.t
                THEN [last.run EXCEPT !.n = @ + 1] ELSE NoRun]

\* An undo: it counts against the edits of the run.
DidUndo ==
    [Did("undo") EXCEPT
        !.run = IF last.run.on /\ last.run.k < last.run.n
                   /\ last.op \in ReleaseOps \cup {"undo"}
                THEN [last.run EXCEPT !.k = @ + 1] ELSE NoRun]

\* LevelEditor.__init__, LevelEditorScene.__init__, LevelMenu.load_scenes:
\* no scene is current; the cell has a path when its file exists.
Init ==
    /\ current_scene = FALSE
    /\ scene_parent = FALSE
    /\ path \in BOOLEAN
    /\ file_rows \in (IF path THEN RowSeqs ELSE {<<>>})
    /\ entities = <<>>
    /\ selection = <<>>
    /\ ent = [j \in Ids |-> FreeEnt]
    /\ undo_data = <<>>
    /\ undo_index = -1
    /\ session = NoSession
    /\ clipboard = <<>>
    /\ last = [op |-> "init", idx |-> -1, len |-> 0, base |-> NoBase, run |-> NoRun,
               sel0 |-> <<>>, pivot |-> NoPivot, eng |-> NoEngage, anchor |-> NoAnchor,
               steps |-> 0]

Used == InUse(entities, selection, ent, session)

FreeCount == Cardinality(Ids \ Used)

\* The new registry, selection, attributes and session of a step; objects
\* nothing refers to any more are collected.
Commit(reg, sel, m, s) ==
    /\ entities' = reg
    /\ selection' = sel
    /\ session' = s
    /\ ent' = Collect(reg, sel, m, s)

\* imported_classes: the classes load finds among the imported modules;
\* "Raising" is one whose constructor raises on the row's arguments.
ImportedClasses == {"Entity", "ErrorEntity", "Raising"}

\* Every row becomes an entity of the class it names.
Loaded_unchecked(row) ==
    [class |-> row.class,
     wt |-> row.t,
     shader |-> IF row.shader = "" THEN "lit_with_shadows_shader" ELSE row.shader,
     parent |-> SceneParent, original_parent |-> SceneParent,
     collider_type |-> IF row.collider_type = "" THEN "None" ELSE row.collider_type,
     snap |-> NoSnap, gsnap |-> NoSnap, selectable |-> TRUE,
     edit_mode |-> FALSE, alive |-> TRUE]

\* The entity a row of the file becomes, with load's post-load adjustments:
\* ErrorEntity(**kwargs) for a class that is not imported, ErrorEntity()
\* under the scene root when the constructor raises.
Loaded(row) ==
    LET target == IF row.class \in ImportedClasses THEN row.class ELSE "ErrorEntity"
        raises == target = "Raising"
        parent == IF raises THEN Scene ELSE SceneParent
    IN  [class |-> IF raises THEN "ErrorEntity" ELSE target,
         wt |-> IF raises THEN Identity ELSE row.t,
         shader |-> IF raises \/ row.shader = "" THEN "lit_with_shadows_shader"
                    ELSE row.shader,
         parent |-> parent, original_parent |-> parent,
         collider_type |-> IF raises \/ row.collider_type = "" THEN "None"
                           ELSE row.collider_type,
         snap |-> NoSnap, gsnap |-> NoSnap, selectable |-> TRUE,
     edit_mode |-> FALSE, alive |-> TRUE]

RECURSIVE LoadRows(_, _, _, _, _)
LoadRows(reg, m, used, rows, k) ==
    IF k > Len(rows) THEN [reg |-> reg, m |-> m]
    ELSE LET c == Fresh(used)
         IN  LoadRows(Append(reg, c), [m EXCEPT ![c] = Loaded(rows[k])],
                      used \cup {c}, rows, k + 1)

\* LevelMenu.goto_scene on the cell: unload, make it current, load.
GotoScene ==
    LET dead == DestroyAll(ent, entities, 1)
        used == InUse(<<>>, <<>>, dead, session)
        loads == path /\ ~scene_parent
    IN  /\ loads => Cardinality(Ids \ used) >= Len(file_rows)
        /\ LET r == IF loads THEN LoadRows(<<>>, dead, used, file_rows, 1)
                    ELSE [reg |-> <<>>, m |-> dead]
           IN  Commit(r.reg, <<>>, r.m, session)
        /\ current_scene' = TRUE
        /\ scene_parent' = TRUE
        /\ last' = Did("goto_scene")
        /\ UNCHANGED <<path, file_rows, undo_data, undo_index, clipboard>>

\* LevelEditor.scenes is a GridSize x GridSize list of cells.
GridSize == 8

Cells == (0..(GridSize - 1)) \X (0..(GridSize - 1))

\* LevelMenu.goto_scene(x, y) between cells without a file: every cell is
\* unloaded, then scenes[x][y] becomes the current cell and gets a
\* scene_parent; an index past the list raises IndexError after the unload
\* and the current cell stays. session.coordinates is
\* current_scene.coordinates.
goto_scene(x, y) ==
    /\ ~path
    /\ Commit(<<>>, <<>>, DestroyAll(ent, entities, 1),
              [session EXCEPT !.coordinates = IF <<x, y>> \in Cells THEN <<x, y>> ELSE @])
    /\ current_scene' = (current_scene \/ <<x, y>> \in Cells)
    /\ scene_parent' = (scene_parent \/ <<x, y>> \in Cells)
    /\ last' = Did("goto_scene")
    /\ UNCHANGED <<path, file_rows, undo_data, undo_index, clipboard>>

\* LevelMenu.input, 'left mouse down' on cell (x, y) of the menu: goto_scene
\* without a modifier, load() of the cell with shift and unload() of it with
\* alt; a cell without a file does not load.
MenuClick(x, y, shift, alt) ==
    IF ~shift /\ ~alt THEN goto_scene(x, y)
    ELSE /\ ~path
         /\ IF alt /\ ~shift /\ current_scene /\ session.coordinates = <<x, y>>
            THEN Commit(<<>>, <<>>, DestroyAll(ent, entities, 1), session)
            ELSE UNCHANGED <<entities, selection, ent, session>>
         /\ last' = Did("menu_click")
         /\ UNCHANGED <<current_scene, scene_parent, path, file_rows,
                        undo_data, undo_index, clipboard>>

clamp(v, lo, hi) == IF v < lo THEN lo ELSE IF v > hi THEN hi ELSE v

\* LevelMenu.input, shift+alt+w/a/s/d: the coordinates it hands goto_scene.
Adjacent(coords, key) ==
    <<clamp(coords[1] + (IF key = "d" THEN 1 ELSE IF key = "a" THEN -1 ELSE 0), 0, GridSize),
      clamp(coords[2] + (IF key = "w" THEN 1 ELSE IF key = "s" THEN -1 ELSE 0), 0, GridSize)>>

\* LevelMenu.input, shift+alt+w/a/s/d with a current cell.
Navigate(key) ==
    /\ current_scene
    /\ goto_scene(Adjacent(session.coordinates, key)[1],
                  Adjacent(session.coordinates, key)[2])

\* LevelMenu.input, shift+click on the current cell: load() on it, which
\* returns at once without a path or with a scene_parent.
LoadCell ==
    LET loads == path /\ ~scene_parent
    IN  /\ current_scene
        /\ loads => FreeCount >= Len(file_rows)
        /\ LET r == IF loads THEN LoadRows(entities, ent, Used, file_rows, 1)
                    ELSE [reg |-> entities, m |-> ent]
           IN  Commit(r.reg, selection, r.m, session)
        /\ scene_parent' = (scene_parent \/ loads)
        /\ last' = Did("load")
        /\ UNCHANGED <<current_scene, path, file_rows, undo_data, undo_index, clipboard>>

\* The row save() writes for a registry entity: its changes, with the
\* collider_type cell between quotes.
SaveRow(m, e) ==
    [class |-> m[e].class,
     t |-> Repr(m, e).t,
     shader |-> IF m[e].shader = "lit_with_shadows_shader" THEN "" ELSE m[e].shader,
     collider_type |-> Quoted(m[e].collider_type)]

\* LevelEditor.input, control+s: LevelEditorScene.save on the current cell;
\* nothing is written when an entity of the registry raises. io is what
\* the file system does: "ok", "mkdir" (the scene folder cannot be made) or
\* "open" (the file cannot be opened for writing).
Save(io) ==
    /\ current_scene
    /\ path \/ entities # <<>>
    /\ IF io = "mkdir" \/ \E k \in 1..Len(entities) : ~ent[entities[k]].alive
       THEN UNCHANGED <<path, file_rows>>
       ELSE /\ path' = TRUE
            /\ file_rows' = IF io = "open" THEN file_rows
                            ELSE [k \in 1..Len(entities) |-> SaveRow(ent, entities[k])]
    /\ last' = Did(IF io = "ok" THEN "save" ELSE "save_failed")
    /\ UNCHANGED <<current_scene, scene_parent, entities, selection, ent, session,
                   undo_data, undo_index, clipboard>>

\* LevelEditor.input, control+z
CtrlZ ==
    /\ current_scene
    /\ ~UndoGuard(undo_index) =>
           FreeCount >= ClonesNeeded(undo_data[undo_index + 1], FALSE)
    /\ LET r == undo(entities, selection, ent, Used, undo_data, undo_index)
       IN  /\ Commit(r.reg, r.sel, r.m, session)
           /\ undo_index' = r.idx
    /\ last' = DidUndo
    /\ UNCHANGED <<current_scene, scene_parent, path, file_rows, undo_data, clipboard>>

\* LevelEditor.input, control+y
CtrlY ==
    /\ current_scene
    /\ ~RedoGuard(undo_data, undo_index) =>
           FreeCount >= ClonesNeeded(undo_data[undo_index + 2], TRUE)
    /\ LET r == redo(entities, selection, ent, Used, undo_data, undo_index)
       IN  /\ Commit(r.reg, r.sel, r.m, session)
           /\ undo_index' = r.idx
    /\ last' = Did("redo")
    /\ UNCHANGED <<current_scene, scene_parent, path, file_rows, undo_data, clipboard>>

\* The entities a pick can return: live entities of the registry.
Pickable == {e \in SeqSet(entities) : ent[e].alive}

\* Selector.input, the selection a 'left mouse down' over clicked leaves.
Clicked(sel, clicked, shift, alt) ==
    LET in_reg == clicked # NoEntity
        s1 == IF in_reg /\ ~alt
              THEN IF shift
                   THEN IF InSeq(sel, clicked) THEN sel ELSE Append(sel, clicked)
                   ELSE <<clicked>>
              ELSE sel
        s2 == IF alt /\ InSeq(s1, clicked) THEN RemoveFirst(s1, clicked) ELSE s1
    IN  IF ~in_reg /\ ~shift /\ ~alt THEN <<>> ELSE s2

\* Selector.input, 'left mouse down' over clicked (NoEntity: empty space);
\* a disabled selector receives no input, and the handler returns while
\* the pointer is over the grabber's or the duplicator's plane
\* (mouse.traverse_target).
SelectorClick(clicked, shift, alt) ==
    /\ session.selector
    /\ session.grab = NoEntity
    /\ ~session.plane
    /\ Commit(entities, Clicked(selection, clicked, shift, alt), ent, session)
        /\ last' = DidRender("select", selection', ent')
        /\ UNCHANGED <<current_scene, scene_parent, path, file_rows,
                       undo_data, undo_index, clipboard>>

\* Selector.input, control+a
SelectAll ==
    /\ session.selector
    /\ Commit(entities, entities, ent, session)
    /\ last' = DidRender("select_all", selection', ent')
    /\ UNCHANGED <<current_scene, scene_parent, path, file_rows,
                   undo_data, undo_index, clipboard>>

\* The fixed camera looks along the scene: an entity's screen position is
\* its world position, with room for a pointer position between two
\* entities and beyond the outermost ones.
ScreenX(m, e) == 2 * m[e].wt.pos
ScreenPoints == (0 - (2 * MaxT + 1))..(2 * MaxT + 1)

\* Selector.input and SelectionBox.input, 'left mouse down' at x with
\* nothing of the scene graph under the pointer: the click, on the entity
\* get_hovered_entity finds at x if it finds one, and the start of the box.
BoxPress(x, clicked, shift, alt) ==
    /\ session.selector
    /\ session.grab = NoEntity
    /\ ~session.plane
    /\ clicked # NoEntity => ScreenX(ent, clicked) = x
    /\ Commit(entities, Clicked(selection, clicked, shift, alt), ent,
              [session EXCEPT !.sbox = [visible |-> TRUE, x |-> x,
                                        mode |-> IF alt THEN "subtract"
                                                 ELSE IF shift THEN "add" ELSE "new"]])
    /\ last' = [Did("box_press") EXCEPT !.sel0 = selection]
    /\ UNCHANGED <<current_scene, scene_parent, path, file_rows,
                   undo_data, undo_index, clipboard>>

\* SelectionBox.input, the loop over the registry.
RECURSIVE BoxLoop(_, _, _, _, _, _, _)
BoxLoop(reg, m, sel, k, lo, hi, mode) ==
    IF k > Len(reg) THEN sel
    ELSE LET e == reg[k]
             inside == lo < ScreenX(m, e) /\ ScreenX(m, e) < hi
             s == IF inside /\ mode \in {"add", "new"} /\ ~InSeq(sel, e) THEN Append(sel, e)
                  ELSE IF inside /\ mode = "subtract" /\ InSeq(sel, e) THEN RemoveFirst(sel, e)
                  ELSE sel
         IN  BoxLoop(reg, m, s, k + 1, lo, hi, mode)

\* SelectionBox.input, 'left mouse up' at x while the box is visible; a box
\* that is too small is dropped.
BoxRelease(x) ==
    LET b == session.sbox
        lo == IF x < b.x THEN x ELSE b.x
        hi == IF x < b.x THEN b.x ELSE x
        small == x = b.x
        start == IF b.mode = "new" THEN <<>> ELSE selection
    IN  /\ b.visible
        /\ Commit(entities,
                  IF small THEN selection
                  ELSE BoxLoop(entities, ent, start, 1, lo, hi, b.mode),
                  ent,
                  [session EXCEPT !.sbox.visible = FALSE,
                                  !.sbox.mode = IF small THEN @ ELSE "new"])
        /\ last' = Did(IF small THEN "box_cancel" ELSE "box_select")
        /\ UNCHANGED <<current_scene, scene_parent, path, file_rows,
                       undo_data, undo_index, clipboard>>

\* HierarchyList.render_selection / draw: the registry indices of the rows,
\* one row per live entity directly under scene_parent.
RECURSIVE Listed(_, _, _)
Listed(reg, m, k) ==
    IF k > Len(reg) THEN <<>>
    ELSE (IF /\ IndexOf(reg, reg[k]) = k
             /\ m[reg[k]].alive
             /\ m[reg[k]].parent = SceneParent
          THEN <<k - 1>> ELSE <<>>) \o Listed(reg, m, k + 1)

\* HierarchyList.input, 'left mouse down' on row y of the panel without
\* shift: control+click appends the row's entity, a plain click sets the
\* selection to it and then clears the selection; a row without an entity
\* has index -1, the last of the registry.
HierarchyClick(y, control) ==
    LET rows == Listed(entities, ent, 1)
        picked == IF y < Len(rows) THEN entities[rows[y + 1] + 1]
                  ELSE entities[Len(entities)]
        s1 == IF y < Len(entities)
              THEN IF control THEN Append(selection, picked) ELSE <<picked>>
              ELSE selection
        s2 == IF control THEN s1 ELSE <<>>
    IN  /\ current_scene
        /\ Len(s2) <= MaxSel
        /\ Commit(entities, s2, ent, session)
        /\ last' = Did("hierarchy_click")
        /\ UNCHANGED <<current_scene, scene_parent, path, file_rows,
                       undo_data, undo_index, clipboard>>

Unset == Node("unset")

Frame == <<current_scene, scene_parent, path, file_rows>>

\* ------------------------------------------------------ structural tools
\* The entity Spawner.spawn_entity constructs at position p; a prefab class
\* may bring its own shader.
Spawned(p, sh) ==
    [class |-> "Entity", wt |-> T(p, 0, 0), shader |-> sh,
     parent |-> SceneParent, original_parent |-> Editor,
     collider_type |-> "'None'",
     snap |-> NoSnap, gsnap |-> NoSnap, selectable |-> TRUE,
     edit_mode |-> FALSE, alive |-> TRUE]

\* Spawner.spawn_entity (key 'i', or a click on a prefab button)
SpawnEntity(p, sh) ==
    /\ current_scene
    /\ FreeCount >= 1
    /\ LET c == Fresh(Used)
       IN  Commit(Append(entities, c), selection,
                  [ent EXCEPT ![c] = Spawned(p, sh)],
                  [session EXCEPT !.spawn = c])
    /\ last' = DidRender("spawn", selection', ent')
    /\ UNCHANGED <<Frame, undo_data, undo_index, clipboard>>

\* Spawner.update: the entity being placed follows the pointer.
SpawnerUpdate(p) ==
    /\ session.spawn # NoEntity
    /\ ent[session.spawn].alive
    /\ LET e == session.spawn
           t == TAdd(ParentWorld(ent, e), T(p, 0, 0))
       IN  /\ InRange(t)
           /\ Commit(entities, selection,
                     SetWorld(ent, e, [ent[e].wt EXCEPT !.pos = t.pos]), session)
    /\ last' = Did("spawner_update")
    /\ UNCHANGED <<Frame, undo_data, undo_index, clipboard>>

\* Spawner.drop_entity ('i up', or 'left mouse up' while placing)
DropEntity ==
    /\ session.spawn # NoEntity
    /\ CanRecord
    /\ LET e == session.spawn
           k == IndexOf(entities, e)
       IN  IF k = 0
           THEN UNCHANGED <<entities, selection, ent, session, undo_data, undo_index>>
           ELSE LET r == record_undo(undo_data, undo_index,
                             Structural("delete entities", <<k - 1>>, <<Repr(ent, e)>>))
                IN  /\ undo_data' = r.log
                    /\ undo_index' = r.idx
                    /\ Commit(entities, <<e>>, ent, [session EXCEPT !.spawn = NoEntity])
    /\ last' = Did("drop_entity")
    /\ UNCHANGED <<Frame, clipboard>>

\* Spawner.spawn_entity(_class), the on_click of a prefab button: a
\* WhiteCube, or a PokeShape. The PokeShape constructor puts its control
\* points in the registry (points_setter) and, by edit_mode = False, takes
\* them out again and makes every entity of the registry selectable.
SpawnPrefab(class, p) ==
    /\ current_scene
    /\ FreeCount >= 1
    /\ class = "PokeShape" => \A e \in SeqSet(entities) \cap Ids : ent[e].class # "PokeShape"
    /\ LET c == Fresh(Used)
           m == IF class = "PokeShape"
                THEN [j \in Ids |-> IF InSeq(entities, j)
                                    THEN [ent[j] EXCEPT !.selectable = TRUE] ELSE ent[j]]
                ELSE ent
       IN  Commit(Append(entities, c), selection,
                  [m EXCEPT ![c] = [Spawned(p, "lit_with_shadows_shader")
                                        EXCEPT !.class = class]],
                  [session EXCEPT !.spawn = c])
    /\ last' = DidRender("spawn", selection', ent')
    /\ UNCHANGED <<Frame, undo_data, undo_index, clipboard>>

\* entity.collider is set: a WhiteCube is built with collider='box', and
\* PokeShape.edit_mode_setter gives the shape a 'mesh' collider outside edit
\* mode and none inside it.
HasCollider(m, e) ==
    /\ e \in Ids
    /\ \/ m[e].class = "WhiteCube"
       \/ m[e].class = "PokeShape" /\ ~m[e].edit_mode

Selectable(m, e) == IF e \in PointIds THEN TRUE ELSE m[e].selectable

\* PokeShape.input, 'tab', and the edit_mode setter it calls: with nothing
\* selected the shape leaves edit mode; with the shape or one of its points
\* selected the mode is toggled. Entering makes every other entity of the
\* registry non-selectable and puts the points in the registry; leaving
\* takes the points out, makes every remaining entity selectable and
\* selects the shape if a point was selected.
Tab ==
    \E shape \in SeqSet(entities) \cap Ids :
        /\ ent[shape].class = "PokeShape"
        /\ ent[shape].alive
        /\ LET points == [k \in 1..MaxPoints |-> MaxIds + 1 + k]
               mine == InSeq(selection, shape)
                          \/ \E g \in PointIds : InSeq(selection, g)
               value == IF selection = <<>> THEN FALSE
                        ELSE IF mine THEN ~ent[shape].edit_mode
                        ELSE ent[shape].edit_mode
               set == selection = <<>> \/ mine
               kept == SelectSeq(entities, LAMBDA e : e \notin PointIds)
               reg == IF ~set THEN entities
                      ELSE IF value
                      THEN entities \o SelectSeq(points, LAMBDA g : ~InSeq(entities, g))
                      ELSE kept
               sel == IF set /\ ~value /\ \E g \in PointIds : InSeq(selection, g)
                      THEN <<shape>> ELSE selection
               m == IF ~set THEN ent
                    ELSE [j \in Ids |->
                            IF j = shape THEN [ent[j] EXCEPT !.edit_mode = value]
                            ELSE IF InSeq(entities, j)
                            THEN [ent[j] EXCEPT !.selectable = ~value]
                            ELSE ent[j]]
           IN  Commit(reg, sel, m, session)
        /\ last' = Did("tab")
        /\ UNCHANGED <<Frame, undo_data, undo_index, clipboard>>

\* Selector.get_hovered_entity. near lists the registry entities whose
\* screen position is within .03 of the pointer, nearest first; hit is
\* mouse.hovered_entity once the registry's colliders are switched on.
get_hovered_entity(reg, m, near, hit) ==
    LET entities_in_range ==
            SelectSeq(near, LAMBDA e : Selectable(m, e) /\ ~HasCollider(m, e))
    IN  IF entities_in_range # <<>> THEN Head(entities_in_range)
        ELSE IF InSeq(reg, hit) THEN hit
        ELSE NoEntity

\* The pointer positions of a click: up to two registry entities in range,
\* and the collider the pointer's ray meets first, if any.
Near == {<<>>} \cup {<<a>> : a \in SeqSet(entities)}
            \cup {s \in {<<a, b>> : a, b \in SeqSet(entities)} : s[1] # s[2]}

Hits == {e \in SeqSet(entities) : HasCollider(ent, e)} \cup {NoEntity}

\* Selector.input, 'left mouse down', on what get_hovered_entity returns.
PickClick(near, hit, shift, alt) ==
    SelectorClick(get_hovered_entity(entities, ent, near, hit), shift, alt)

\* Deleter.delete_selected ('delete' or control+x with a selection)
DeleteSelected ==
    /\ selection # <<>>
    /\ CanRecord
    /\ IF \E k \in 1..Len(selection) : ~InSeq(entities, selection[k])
       THEN UNCHANGED <<entities, selection, ent, session, undo_data, undo_index>>
       ELSE LET ids == [k \in 1..Len(selection) |-> IndexOf(entities, selection[k]) - 1]
                recipes == [k \in 1..Len(selection) |-> Repr(ent, selection[k])]
                r == record_undo(undo_data, undo_index,
                                 Structural("restore entities", ids, recipes))
            IN  /\ undo_data' = r.log
                /\ undo_index' = r.idx
                /\ Commit(RemoveAll(entities, selection, 1), <<>>,
                          DestroyAll(ent, selection, 1), session)
    /\ last' = Did("delete")
    /\ UNCHANGED <<Frame, clipboard>>

RECURSIVE ReparentAll(_, _, _, _)
ReparentAll(m, sel, node, k) ==
    IF k > Len(sel) THEN m
    ELSE ReparentAll(Reparent(m, sel[k], node), sel, node, k + 1)

\* Grouper.input, control+g with a selection
Group ==
    /\ selection # <<>>
    /\ current_scene
    /\ FreeCount >= 1
    /\ LET g == Fresh(Used)
           parents == {ent[e].parent : e \in SeqSet(selection)}
           group == [class |-> "Entity",
                     wt |-> T(SumPos(ent, selection, 1) \div Len(selection), 0, 0),
                     shader |-> "",
                     parent |-> IF Cardinality(parents) = 1
                                THEN CHOOSE n \in parents : TRUE ELSE SceneParent,
                     original_parent |-> Unset,
                     collider_type |-> "unset",
                     snap |-> NoSnap, gsnap |-> NoSnap, selectable |-> TRUE,
     edit_mode |-> FALSE, alive |-> TRUE]
       IN  Commit(Append(entities, g), <<g>>,
                  ReparentAll([ent EXCEPT ![g] = group], selection, EntNode(g), 1),
                  session)
    /\ last' = Did("group")
    /\ UNCHANGED <<Frame, undo_data, undo_index, clipboard>>

\* Copier.input, control+c with a selection
Copy ==
    /\ selection # <<>>
    /\ Len(selection) <= MaxClip
    /\ clipboard' = [k \in 1..Len(selection) |->
                         [Repr(ent, selection[k]) EXCEPT
                             !.collider_type = Quoted(ent[selection[k]].collider_type)]]
    /\ last' = Did("copy")
    /\ UNCHANGED <<Frame, entities, selection, ent, session, undo_data, undo_index>>

\* for line in cleaned_code: the instance is appended to the registry.
RECURSIVE PasteClones(_, _, _, _, _, _)
PasteClones(reg, m, used, lines, k, clones) ==
    IF k > Len(lines) THEN [reg |-> reg, m |-> m, clones |-> clones]
    ELSE LET c == Fresh(used)
         IN  PasteClones(Append(reg, c), [m EXCEPT ![c] = Eval(lines[k])],
                         used \cup {c}, lines, k + 1, Append(clones, c))

\* Copier.input, control+v with copied entities on the clipboard
Paste ==
    /\ clipboard # <<>>
    /\ current_scene
    /\ CanRecord
    /\ FreeCount >= Len(clipboard)
    /\ LET p == PasteClones(entities, ent, Used, clipboard, 1, <<>>)
           reg == p.reg \o p.clones
           ids == [k \in 1..Len(p.clones) |-> IndexOf(reg, p.clones[k]) - 1]
           recipes == [k \in 1..Len(p.clones) |-> Repr(p.m, p.clones[k])]
           r == record_undo(undo_data, undo_index,
                            Structural("delete entities", ids, recipes))
       IN  /\ undo_data' = r.log
           /\ undo_index' = r.idx
           /\ Commit(reg, p.clones, p.m, session)
    /\ last' = Did("paste")
    /\ UNCHANGED <<Frame, clipboard>>

\* ShaderMenu.on_select_asset(name) with a selection
SelectShader(name) ==
    /\ selection # <<>>
    /\ CanRecord
    /\ IF \E k \in 1..Len(selection) : ~InSeq(entities, selection[k])
       THEN UNCHANGED <<undo_data, undo_index>>
       ELSE LET cs == [k \in 1..Len(selection) |->
                          Change(IndexOf(entities, selection[k]) - 1, "shader",
                                 SVal(ent[selection[k]].shader), SVal(name))]
                r == record_undo(undo_data, undo_index, Changes(cs))
            IN  /\ undo_data' = r.log
                /\ undo_index' = r.idx
    /\ Commit(entities, selection,
              [j \in Ids |-> IF InSeq(selection, j) /\ ent[j].alive
                             THEN [ent[j] EXCEPT !.shader = name] ELSE ent[j]],
              session)
    /\ last' = Did("shader")
    /\ UNCHANGED <<Frame, clipboard>>

\* MenuHandler.states without the 'None' entry, and MenuHandler.keybinds.
Menus == {"model_menu", "texture_menu", "shader_menu", "color_menu",
          "collider_menu", "class_menu"}

keybinds == [key \in {"m", "v", "n", "b", "escape"} |->
                IF key = "m" THEN "model_menu"
                ELSE IF key = "v" THEN "texture_menu"
                ELSE IF key = "n" THEN "shader_menu"
                ELSE IF key = "b" THEN "color_menu"
                ELSE "None"]

\* MenuHandler.state = value: the current state toggles its menu, another
\* one is enabled alone.
SetState(menu, value) ==
    IF menu.state = value
    THEN [menu EXCEPT !.enabled = IF value \in @ THEN @ \ {value} ELSE @ \cup {value}]
    ELSE [state |-> value, enabled |-> {value}]

\* MenuHandler.input(key); modifier: control, shift or alt is held.
MenuKey(key, modifier) ==
    /\ LET menu == session.menu
           m == IF key = "escape" /\ menu.state # "None" THEN SetState(menu, "None")
                ELSE IF menu.state # "None" THEN menu
                ELSE IF ~modifier /\ key \in DOMAIN keybinds /\ selection # <<>>
                THEN SetState(menu, keybinds[key])
                ELSE menu
       IN  Commit(entities, selection, ent, [session EXCEPT !.menu = m])
    /\ last' = Did("menu_key")
    /\ UNCHANGED <<Frame, undo_data, undo_index, clipboard>>

\* A click on one of the inspector's buttons, which sets
\* LEVEL_EDITOR.menu_handler.state.
MenuButton(value) ==
    /\ selection # <<>>
    /\ Commit(entities, selection, ent,
              [session EXCEPT !.menu = SetState(session.menu, value)])
    /\ last' = Did("menu_button")
    /\ UNCHANGED <<Frame, undo_data, undo_index, clipboard>>

\* The pivots of the manipulators.
Arrow == Node("gizmo_arrow")
FakeGizmo == Node("fake_gizmo")
Rotator == Node("rotator")
Scaler == Node("scaler")
OffsetHelper == Node("offset_helper")
BoxScaler == Node("box_scaler")
RotationHelper == Node("rotation_helper")
Dragger == Node("dragger")

\* One tick of pointer movement along each component.
DPos == T(1, 0, 0)
DRot == T(0, 1, 0)
DScl == T(0, 0, 1)

CanMove(m, S, d) == \A j \in S : InRange(TAdd(m[j].wt, d))

\* deepcopy(e) in Duplicator.input, with the attributes copied over.
DuplicateOf(m, e) ==
    [Eval(Repr(m, e)) EXCEPT !.original_parent = m[e].parent,
                             !.shader = m[e].shader,
                             !.collider_type = m[e].collider_type]

RECURSIVE MakeClones(_, _, _, _, _)
MakeClones(m, used, sel, k, clones) ==
    IF k > Len(sel) THEN [m |-> m, clones |-> clones]
    ELSE LET c == Fresh(used)
         IN  MakeClones([m EXCEPT ![c] = DuplicateOf(m, sel[k])],
                        used \cup {c}, sel, k + 1, Append(clones, c))

\* Duplicator.input, shift+d with a selection
Duplicate ==
    /\ selection # <<>>
    /\ CanRecord
    /\ FreeCount >= Len(selection)
    /\ LET c == MakeClones(ent, Used, selection, 1, <<>>)
           reg == entities \o c.clones
           ids == [k \in 1..Len(c.clones) |-> IndexOf(reg, c.clones[k]) - 1]
           recipes == [k \in 1..Len(c.clones) |-> Repr(c.m, c.clones[k])]
           r == record_undo(undo_data, undo_index,
                            Structural("delete entities", ids, recipes))
       IN  /\ undo_data' = r.log
           /\ undo_index' = r.idx
           /\ Commit(reg, c.clones, ReparentAll(c.m, c.clones, Dragger, 1),
                     [session EXCEPT !.clones = c.clones, !.plane = TRUE])
    /\ last' = DidEngage("duplicate")
    /\ UNCHANGED <<Frame, clipboard>>

\* Duplicator.update: the clones follow the dragger.
DuplicatorUpdate ==
    /\ session.plane
    /\ Under(ent, Dragger) # {}
    /\ CanMove(ent, Under(ent, Dragger), DPos)
    /\ Commit(entities, selection, Move(ent, Under(ent, Dragger), DPos), session)
    /\ last' = DidUpdate("duplicator_update")
    /\ UNCHANGED <<Frame, undo_data, undo_index, clipboard>>

\* Duplicator.update; point: mouse.world_point, "none" when the pointer ray
\* does not meet the plane, and then the tick does nothing.
DuplicatorTick(point) ==
    IF point = "none"
    THEN /\ session.plane
         /\ Commit(entities, selection, ent, session)
         /\ last' = DidUpdate("duplicator_miss")
         /\ UNCHANGED <<Frame, undo_data, undo_index, clipboard>>
    ELSE DuplicatorUpdate

RECURSIVE RestoreClones(_, _, _)
RestoreClones(m, clones, k) ==
    IF k > Len(clones) THEN m
    ELSE RestoreClones(Reparent(m, clones[k], m[clones[k]].original_parent),
                       clones, k + 1)

\* Duplicator.input, 'left mouse up' while the plane is enabled
DuplicatorRelease ==
    /\ session.plane
    /\ Commit(entities, selection, RestoreClones(ent, session.clones, 1),
              [session EXCEPT !.clones = <<>>, !.plane = FALSE])
    /\ last' = DidRelease("duplicator_release")
    /\ UNCHANGED <<Frame, undo_data, undo_index, clipboard>>

\* ---------------------------------------------------------- manipulators
\* GizmoArrow.drag: the loop over the selection.
RECURSIVE ArrowEngage(_, _, _, _)
ArrowEngage(m, sel, pivot, k) ==
    IF k > Len(sel) THEN m
    ELSE LET e == sel[k]
         IN  ArrowEngage([m EXCEPT ![e].original_parent =
                                       IF m[e].parent = Arrow THEN Scene ELSE m[e].parent,
                                   ![e].parent = pivot,
                                   ![e].snap = Snap(m[e].wt)],
                         sel, pivot, k + 1)

\* GizmoArrow.drag, through Draggable.start_dragging on 'left mouse down';
\* local: the frame mode read from local_global_menu.
ArrowDrag(local) ==
    /\ ~session.arrow
    /\ selection # <<>>
    /\ Commit(entities, selection,
              ArrowEngage(ent, selection, IF local THEN FakeGizmo ELSE Arrow, 1),
              [session EXCEPT !.arrow = TRUE])
    /\ last' = DidEngage("arrow_drag")
    /\ UNCHANGED <<Frame, undo_data, undo_index, clipboard>>

ArrowChildren(m) == Under(m, Arrow) \cup Under(m, FakeGizmo)

\* Draggable.update / Gizmo.update: what hangs on the arrow follows the pointer.
ArrowUpdate ==
    /\ session.arrow
    /\ ArrowChildren(ent) # {}
    /\ CanMove(ent, ArrowChildren(ent), DPos)
    /\ Commit(entities, selection, Move(ent, ArrowChildren(ent), DPos), session)
    /\ last' = DidUpdate("arrow_update")
    /\ UNCHANGED <<Frame, undo_data, undo_index, clipboard>>

\* for e in selection: e.world_parent = e.original_parent; an entity without
\* the attribute raises and ends the handler.
RECURSIVE RestoreParents(_, _, _)
RestoreParents(m, sel, k) ==
    IF k > Len(sel) THEN [m |-> m, ok |-> TRUE]
    ELSE IF m[sel[k]].original_parent = Unset THEN [m |-> m, ok |-> FALSE]
    ELSE RestoreParents(Reparent(m, sel[k], m[sel[k]].original_parent), sel, k + 1)

\* The transform of first differs from its snapshot by more than epsilon.
Changed(m, first) == m[first].snap.set /\ m[first].wt # m[first].snap.t

\* GizmoArrow.drop: the loop that builds the entries; an entity missing from
\* the registry is skipped, one without a snapshot raises.
RECURSIVE ArrowChanges(_, _, _, _, _)
ArrowChanges(reg, m, sel, k, cs) ==
    IF k > Len(sel) THEN [cs |-> cs, ok |-> TRUE]
    ELSE LET e == sel[k]
         IN  IF ~InSeq(reg, e) THEN ArrowChanges(reg, m, sel, k + 1, cs)
             ELSE IF ~m[e].snap.set THEN [cs |-> cs, ok |-> FALSE]
             ELSE ArrowChanges(reg, m, sel, k + 1,
                      Append(cs, Change(IndexOf(reg, e) - 1, "world_transform",
                                        TVal(m[e].snap.t), TVal(m[e].wt))))

\* GizmoArrow.drop, through Draggable.stop_dragging on 'left mouse up'
ArrowDrop ==
    /\ session.arrow
    /\ CanRecord
    /\ LET p == RestoreParents(ent, selection, 1)
           c == ArrowChanges(entities, p.m, selection, 1, <<>>)
           records == p.ok /\ selection # <<>> /\ Changed(p.m, selection[1]) /\ c.ok
           r == record_undo(undo_data, undo_index, Changes(c.cs))
       IN  /\ undo_data' = IF records THEN r.log ELSE undo_data
           /\ undo_index' = IF records THEN r.idx ELSE undo_index
           /\ Commit(entities, selection, p.m, [session EXCEPT !.arrow = FALSE])
    /\ last' = DidRelease("arrow_drop")
    /\ UNCHANGED <<Frame, clipboard>>

\* RotationGizmo.drag / ScaleGizmo.drag: the loop over the selection.
RECURSIVE PivotEngage(_, _, _, _)
PivotEngage(m, sel, pivot, k) ==
    IF k > Len(sel) THEN m
    ELSE LET e == sel[k]
         IN  PivotEngage([m EXCEPT ![e].parent = pivot, ![e].snap = Snap(m[e].wt)],
                         sel, pivot, k + 1)

\* RotationGizmo.drop / ScaleGizmo.drop: the loop over the selection; a
\* missing original_parent, registry entry or snapshot raises.
RECURSIVE PivotRelease(_, _, _, _, _)
PivotRelease(reg, m, sel, k, cs) ==
    IF k > Len(sel) THEN [m |-> m, cs |-> cs, ok |-> TRUE]
    ELSE LET e == sel[k]
             m1 == Reparent(m, e, m[e].original_parent)
         IN  IF m[e].original_parent = Unset THEN [m |-> m, cs |-> cs, ok |-> FALSE]
             ELSE IF ~InSeq(reg, e) \/ ~m[e].snap.set THEN [m |-> m1, cs |-> cs, ok |-> FALSE]
             ELSE PivotRelease(reg, m1, sel, k + 1,
                      Append(cs, Change(IndexOf(reg, e) - 1, "world_transform",
                                        TVal(m[e].snap.t), TVal(m[e].wt))))

\* e.rotation -= amount / e.scale += delta for every selected entity.
RECURSIVE MoveEach(_, _, _, _)
MoveEach(m, sel, d, k) ==
    IF k > Len(sel) THEN m
    ELSE MoveEach(Move(m, Family(m, sel[k]), d), sel, d, k + 1)

\* RotationGizmo.update / ScaleGizmo.update; individual: the origin mode
\* read from origin_mode_menu.
PivotTick(m, sel, pivot, d, individual) ==
    IF individual THEN MoveEach(m, sel, d, 1) ELSE Move(m, Under(m, pivot), d)

\* RotationGizmo.drag, a click on a ring
RotationDrag ==
    /\ ~session.rot
    /\ selection # <<>>
    /\ Commit(entities, selection, PivotEngage(ent, selection, Rotator, 1),
              [session EXCEPT !.rot = TRUE])
    /\ last' = DidEngage("rotation_drag")
    /\ UNCHANGED <<Frame, undo_data, undo_index, clipboard>>

\* RotationGizmo.update
RotationUpdate(individual) ==
    /\ session.rot
    /\ CanMove(ent, IF individual THEN SeqSet(selection) ELSE Under(ent, Rotator), DRot)
    /\ LET m == PivotTick(ent, selection, Rotator, DRot, individual)
       IN  /\ m # ent
           /\ Commit(entities, selection, m, session)
    /\ last' = DidUpdate("rotation_update")
    /\ UNCHANGED <<Frame, undo_data, undo_index, clipboard>>

\* RotationGizmo.input, 'left mouse up' while dragging: drop()
RotationDrop ==
    /\ session.rot
    /\ CanRecord
    /\ LET p == PivotRelease(entities, ent, selection, 1, <<>>)
           r == record_undo(undo_data, undo_index, Changes(p.cs))
       IN  /\ undo_data' = IF p.ok THEN r.log ELSE undo_data
           /\ undo_index' = IF p.ok THEN r.idx ELSE undo_index
           /\ Commit(entities, selection, p.m, [session EXCEPT !.rot = ~p.ok])
    /\ last' = DidRelease("rotation_drop")
    /\ UNCHANGED <<Frame, clipboard>>

\* QuickRotator.input, 'r' over hovered (NoEntity: nothing under the pointer)
QuickRotate(hovered) ==
    /\ ~session.rot
    /\ session.qrot = NoEntity
    /\ Len(selection) <= 1
    /\ LET sel == IF selection = <<>> /\ hovered # NoEntity THEN <<hovered>> ELSE selection
       IN  IF sel = <<>>
           THEN Commit(entities, sel, ent, session)
           ELSE Commit(entities, sel, PivotEngage(ent, sel, Rotator, 1),
                       [session EXCEPT !.qrot = sel[1], !.rot = TRUE])
    /\ last' = DidEngage("quick_rotate")
    /\ UNCHANGED <<Frame, undo_data, undo_index, clipboard>>

\* QuickRotator.input, 'r up' with a target: the ring's drop(), then the
\* selection is cleared; an exception in drop() ends the handler.
QuickRotateRelease ==
    /\ session.qrot # NoEntity
    /\ CanRecord
    /\ LET p == PivotRelease(entities, ent, selection, 1, <<>>)
           r == record_undo(undo_data, undo_index, Changes(p.cs))
       IN  /\ undo_data' = IF p.ok THEN r.log ELSE undo_data
           /\ undo_index' = IF p.ok THEN r.idx ELSE undo_index
           /\ Commit(entities, IF p.ok THEN <<>> ELSE selection, p.m,
                     [session EXCEPT !.rot = IF p.ok THEN FALSE ELSE @,
                                     !.qrot = IF p.ok THEN NoEntity ELSE @])
    /\ last' = DidRelease("quick_rotate_release")
    /\ UNCHANGED <<Frame, clipboard>>

\* ScaleGizmo.drag, a click on a handle
ScaleDrag ==
    /\ ~session.scale
    /\ selection # <<>>
    /\ Commit(entities, selection, PivotEngage(ent, selection, Scaler, 1),
              [session EXCEPT !.scale = TRUE])
    /\ last' = DidEngage("scale_drag")
    /\ UNCHANGED <<Frame, undo_data, undo_index, clipboard>>

\* ScaleGizmo.update
ScaleUpdate(individual) ==
    /\ session.scale
    /\ CanMove(ent, IF individual THEN SeqSet(selection) ELSE Under(ent, Scaler), DScl)
    /\ LET m == PivotTick(ent, selection, Scaler, DScl, individual)
       IN  /\ m # ent
           /\ Commit(entities, selection, m, session)
    /\ last' = DidUpdate("scale_update")
    /\ UNCHANGED <<Frame, undo_data, undo_index, clipboard>>

\* ScaleGizmo.drop, through Draggable.stop_dragging on 'left mouse up'
ScaleDrop ==
    /\ session.scale
    /\ CanRecord
    /\ LET p == PivotRelease(entities, ent, selection, 1, <<>>)
           r == record_undo(undo_data, undo_index, Changes(p.cs))
       IN  /\ undo_data' = IF p.ok THEN r.log ELSE undo_data
           /\ undo_index' = IF p.ok THEN r.idx ELSE undo_index
           /\ Commit(entities, selection, p.m, [session EXCEPT !.scale = FALSE])
    /\ last' = DidRelease("scale_drop")
    /\ UNCHANGED <<Frame, clipboard>>

\* QuickScaler.input, 's' over hovered
QuickScale(hovered) ==
    /\ ~session.scale
    /\ LET sel == IF selection = <<>> /\ hovered # NoEntity THEN <<hovered>> ELSE selection
       IN  Commit(entities, sel, PivotEngage(ent, sel, Scaler, 1),
                  [session EXCEPT !.clear = (selection = <<>>), !.scale = TRUE,
                                  !.selector = FALSE])
    /\ last' = DidEngage("quick_scale")
    /\ UNCHANGED <<Frame, undo_data, undo_index, clipboard>>

\* QuickScaler.input, 's up': the gizmo's 'left mouse up', then the selection
\* is cleared when the key press found none; an exception in drop() ends
\* the handler. The handler returns at once while 'r' or 't' is held.
QuickScaleRelease ==
    /\ session.qrot = NoEntity
    /\ session.rtv = NoEntity
    /\ CanRecord
    /\ LET p == IF session.scale THEN PivotRelease(entities, ent, selection, 1, <<>>)
                ELSE [m |-> ent, cs |-> <<>>, ok |-> TRUE]
           records == session.scale /\ p.ok
           r == record_undo(undo_data, undo_index, Changes(p.cs))
       IN  /\ undo_data' = IF records THEN r.log ELSE undo_data
           /\ undo_index' = IF records THEN r.idx ELSE undo_index
           /\ Commit(entities, IF p.ok /\ session.clear THEN <<>> ELSE selection, p.m,
                     [session EXCEPT !.scale = FALSE,
                                     !.selector = IF p.ok THEN TRUE ELSE @])
    /\ last' = IF session.scale THEN DidRelease("quick_scale_release")
                ELSE DidUpdate("quick_scale_key_up")
    /\ UNCHANGED <<Frame, clipboard>>

\* QuickGrabber.start_moving_on_axis over hovered ('d' or 'left mouse down'
\* with no target yet: the xz plane, no axis locked)
GrabStart(hovered) ==
    /\ session.grab = NoEntity
    /\ hovered # NoEntity
    /\ LET e == hovered
           m == [ent EXCEPT ![e].original_parent =
                                IF ent[e].parent = Arrow THEN Scene
                                ELSE ent[e].parent,
                            ![e].gsnap = Snap(ent[e].wt),
                            ![e].parent = OffsetHelper]
       IN  Commit(entities, <<e>>, m, [session EXCEPT !.grab = e])
    /\ last' = DidEngage("grab_start")
    /\ UNCHANGED <<Frame, undo_data, undo_index, clipboard>>

\* QuickGrabber.update: the offset helper follows the pointer.
GrabUpdate ==
    /\ session.grab # NoEntity
    /\ Under(ent, OffsetHelper) # {}
    /\ CanMove(ent, Under(ent, OffsetHelper), DPos)
    /\ Commit(entities, selection, Move(ent, Under(ent, OffsetHelper), DPos), session)
    /\ last' = DidUpdate("grab_update")
    /\ UNCHANGED <<Frame, undo_data, undo_index, clipboard>>

\* QuickGrabber.start_moving_on_axis over hovered, 'x', 'y' or 'z': the two
\* other axes are locked; q is the target's position on one of them.
GrabAxisStart(hovered, q) ==
    /\ session.grab = NoEntity
    /\ hovered # NoEntity
    /\ LET e == hovered
           m == [ent EXCEPT ![e].original_parent =
                                IF ent[e].parent = Arrow THEN Scene
                                ELSE ent[e].parent,
                            ![e].gsnap = Snap(ent[e].wt),
                            ![e].parent = OffsetHelper]
       IN  Commit(entities, <<e>>, m,
                  [session EXCEPT !.grab = e, !.lock = [on |-> TRUE, y0 |-> q, y |-> q, nudged |-> FALSE]])
    /\ last' = DidEngage("grab_axis_start")
    /\ UNCHANGED <<Frame, undo_data, undo_index, clipboard>>

\* The tick moves the target whether the pointer ray meets the plane or not.
GrabAxisUpdate_always(point, control) ==
    /\ session.grab # NoEntity
    /\ session.lock.on
    /\ Under(ent, OffsetHelper) # {}
    /\ CanMove(ent, Under(ent, OffsetHelper), DPos)
    /\ Commit(entities, selection, Move(ent, Under(ent, OffsetHelper), DPos),
              [session EXCEPT !.lock.y = IF control THEN 4 * ((@ + 2) \div 4) ELSE @])
    /\ last' = DidUpdate(IF point = "none" THEN "grab_axis_miss" ELSE "grab_axis_update")
    /\ UNCHANGED <<Frame, undo_data, undo_index, clipboard>>

\* QuickGrabber.update with an axis locked; point: mouse.world_point, "none"
\* when the pointer ray does not meet the plane, and then the tick returns.
\* Otherwise the offset helper follows the pointer along the free axis;
\* with control held the helper's and the target's world positions are
\* rounded, every component of them (a position in quarters goes to the
\* nearest multiple of 4).
GrabAxisUpdate(point, control) ==
    /\ session.grab # NoEntity
    /\ session.lock.on
    /\ IF point = "none"
       THEN Commit(entities, selection, ent, session)
       ELSE /\ Under(ent, OffsetHelper) # {}
            /\ CanMove(ent, Under(ent, OffsetHelper), DPos)
            /\ Commit(entities, selection, Move(ent, Under(ent, OffsetHelper), DPos),
                      [session EXCEPT !.lock.y = IF control THEN 4 * ((@ + 2) \div 4) ELSE @])
    /\ last' = DidUpdate(IF point = "none" THEN "grab_axis_miss" ELSE "grab_axis_update")
    /\ UNCHANGED <<Frame, undo_data, undo_index, clipboard>>

\* QuickGrabber.drop: the loop that builds the entries from the selection.
RECURSIVE GrabChanges(_, _, _, _, _)
GrabChanges(reg, m, sel, k, cs) ==
    IF k > Len(sel) THEN [cs |-> cs, ok |-> TRUE]
    ELSE LET e == sel[k]
         IN  IF ~InSeq(reg, e) \/ ~m[e].gsnap.set THEN [cs |-> cs, ok |-> FALSE]
             ELSE GrabChanges(reg, m, sel, k + 1,
                      Append(cs, Change(IndexOf(reg, e) - 1, "world_position",
                                        TVal(m[e].gsnap.t), TVal(m[e].wt))))

\* QuickGrabber.update with a pointer movement that takes the target less
\* than 0.1 away.
GrabNudge ==
    /\ session.grab # NoEntity
    /\ ~session.lock.nudged
    /\ Commit(entities, selection, ent, [session EXCEPT !.lock.nudged = TRUE])
    /\ last' = DidUpdate("grab_nudge")
    /\ UNCHANGED <<Frame, undo_data, undo_index, clipboard>>

\* distance(_original_world_position, world_position) < 0.1 for the target:
\* no whole step and no quarter on a locked axis lies between the two.
GrabNear(m, s) ==
    /\ m[s.grab].wt.pos = m[s.grab].gsnap.t.pos
    /\ s.lock.y = s.lock.y0

\* QuickGrabber.input, the release of a shortcut key or of the left button
\* with a target; click: the key is 'left mouse up' less than half a second
\* after the press. A click with the target near its snapshot takes the
\* cancel branch, which puts the target back on the snapshot; every other
\* release is drop(), which compares the two positions exactly.
GrabRelease(click) ==
    /\ session.grab # NoEntity
    /\ CanRecord
    /\ LET e == session.grab
           m == Reparent(ent, e, ent[e].original_parent)
           cancel == click /\ GrabNear(ent, session)
           moved == ~GrabNear(ent, session) \/ session.lock.nudged
           c == GrabChanges(entities, m, selection, 1, <<>>)
           records == ~cancel /\ moved /\ c.ok
           r == record_undo(undo_data, undo_index, Changes(c.cs))
       IN  /\ undo_data' = IF records THEN r.log ELSE undo_data
           /\ undo_index' = IF records THEN r.idx ELSE undo_index
           /\ Commit(entities,
                     IF cancel \/ ~moved THEN <<e>> ELSE IF c.ok THEN <<>> ELSE selection,
                     IF cancel THEN [m EXCEPT ![e].wt.pos = ent[e].gsnap.t.pos] ELSE m,
                     [session EXCEPT !.grab = NoEntity, !.lock = NoLock])
    /\ last' = DidRelease("grab_release")
    /\ UNCHANGED <<Frame, clipboard>>

\* RotateRelativeToView.input, 't' over hovered
RtvStart(hovered) ==
    /\ session.rtv = NoEntity
    /\ Len(selection) <= 1
    /\ LET sel == IF selection = <<>> /\ hovered # NoEntity THEN <<hovered>> ELSE selection
       IN  IF sel = <<>>
           THEN Commit(entities, sel, ent, session)
           ELSE Commit(entities, sel, Reparent(ent, sel[1], RotationHelper),
                       [session EXCEPT !.rtv = sel[1], !.rtv_parent = ent[sel[1]].parent])
    /\ last' = DidEngage("rtv_start")
    /\ UNCHANGED <<Frame, undo_data, undo_index, clipboard>>

\* RotateRelativeToView.update: the rotation helper turns with the pointer.
RtvUpdate ==
    /\ session.rtv # NoEntity
    /\ Under(ent, RotationHelper) # {}
    /\ CanMove(ent, Under(ent, RotationHelper), DRot)
    /\ Commit(entities, selection, Move(ent, Under(ent, RotationHelper), DRot), session)
    /\ last' = DidUpdate("rtv_update")
    /\ UNCHANGED <<Frame, undo_data, undo_index, clipboard>>

\* RotateRelativeToView.input, 't up' with a target
RtvRelease ==
    /\ session.rtv # NoEntity
    /\ Commit(entities, <<>>, Reparent(ent, session.rtv, session.rtv_parent),
              [session EXCEPT !.rtv = NoEntity, !.rtv_parent = Scene])
    /\ last' = DidRelease("rtv_release")
    /\ UNCHANGED <<Frame, undo_data, undo_index, clipboard>>

\* The world size, in quarters of a unit, of an entity of scale index scl:
\* the least index stands for one unit.
Size(scl) == 4 * (scl + MaxT + 1)

Abs(v) == IF v < 0 THEN -v ELSE v

\* The target's world size along the scaled axis: its scale under the
\* scaler times the scaler's world scale.
WorldSize(edge) == (edge.s * edge.num) \div edge.den

\* BoxGizmo.start_scaling, 'a' over hovered with mouse.normal along the
\* axis: the scaler goes to the face opposite the hovered one (with alt, to
\* the target's centre), the target goes under the scaler, the helper goes
\* to the hovered face and becomes the selection.
BoxStart(hovered, normal, alt) ==
    /\ session.box = NoEntity
    /\ hovered # NoEntity
    /\ LET pos == 4 * ent[hovered].wt.pos
           size == Size(ent[hovered].wt.scl)
           edge == [on |-> TRUE, normal |-> normal, center |-> alt,
                    a |-> IF alt THEN pos ELSE pos - normal * (size \div 2),
                    s |-> IF alt THEN 4 ELSE size,
                    h |-> pos + normal * (size \div 2),
                    pos |-> pos,
                    num |-> size, den |-> IF alt THEN 4 ELSE size]
       IN  Commit(entities, <<Helper>>,
                  [ent EXCEPT ![hovered].snap = Snap(ent[hovered].wt),
                              ![hovered].parent = BoxScaler],
                  [session EXCEPT !.box = hovered, !.edge = edge])
    /\ last' = DidEngage("box_start")
    /\ UNCHANGED <<Frame, undo_data, undo_index, clipboard>>

\* The target is scaled about its centre whatever the session's mode.
BoxUpdate_from_center(point) ==
    /\ session.box # NoEntity
    /\ point # session.edge.h
    /\ LET e == session.edge
           value == Abs(point - e.a)
           edge == [e EXCEPT !.h = point, !.num = 2 * value, !.den = e.s]
           d == T(0, 0, IF WorldSize(edge) > WorldSize(e) THEN 1
                        ELSE IF WorldSize(edge) < WorldSize(e) THEN -1 ELSE 0)
       IN  /\ CanMove(ent, Family(ent, session.box), d)
           /\ Commit(entities, selection, Move(ent, Family(ent, session.box), d),
                     [session EXCEPT !.edge = edge])
    /\ last' = DidUpdate("box_update")
    /\ UNCHANGED <<Frame, undo_data, undo_index, clipboard>>

\* BoxGizmo.update with 'a' held and the helper dragged to point: the
\* target's scale under the scaler becomes the helper's distance from the
\* scaler in the scaler's frame, value / s (twice that with
\* scale_from_center), and
\* without scale_from_center the target goes midway between the scaler and
\* the helper.
BoxUpdate(point) ==
    /\ session.box # NoEntity
    /\ point # session.edge.h
    /\ LET e == session.edge
           value == Abs(point - e.a)
           edge == [e EXCEPT !.h = point,
                             !.num = IF e.center THEN 2 * value ELSE value,
                             !.den = e.s,
                             !.pos = IF e.center THEN @ ELSE (e.a + point) \div 2]
           d == T(0, 0, IF WorldSize(edge) > WorldSize(e) THEN 1
                        ELSE IF WorldSize(edge) < WorldSize(e) THEN -1 ELSE 0)
       IN  /\ CanMove(ent, Family(ent, session.box), d)
           /\ Commit(entities, selection, Move(ent, Family(ent, session.box), d),
                     [session EXCEPT !.edge = edge])
    /\ last' = DidUpdate("box_update")
    /\ UNCHANGED <<Frame, undo_data, undo_index, clipboard>>

\* BoxGizmo.stop_scaling, 'a up' with a target: the parent is restored, the
\* selection cleared and one entry recorded; a target without
\* original_parent raises at once, one missing from the registry raises at
\* the record.
BoxStop ==
    /\ session.box # NoEntity
    /\ CanRecord
    /\ LET t == session.box
           restores == ent[t].original_parent # Unset
           records == restores /\ InSeq(entities, t)
           m == IF restores THEN Reparent(ent, t, ent[t].original_parent) ELSE ent
           r == record_undo(undo_data, undo_index,
                            Changes(<<Change(IndexOf(entities, t) - 1, "world_transform",
                                             TVal(ent[t].snap.t), TVal(ent[t].wt))>>))
       IN  /\ undo_data' = IF records THEN r.log ELSE undo_data
           /\ undo_index' = IF records THEN r.idx ELSE undo_index
           /\ Commit(entities, IF restores THEN <<>> ELSE selection, m,
                     [session EXCEPT !.box = IF records THEN NoEntity ELSE @,
                                     !.edge = IF records THEN NoEdge ELSE @])
    /\ last' = DidRelease("box_stop")
    /\ UNCHANGED <<Frame, clipboard>>

\* ------------------------------------------------------------ specification
Hover == Pickable \cup {NoEntity}

Next ==
    \/ Budget /\ GotoScene
    \/ Budget /\ CtrlZ
    \/ Budget /\ CtrlY
    \/ Budget /\ \E c \in Hover, shift \in BOOLEAN, alt \in BOOLEAN : SelectorClick(c, shift, alt)
    \/ Budget /\ SelectAll
    \/ Budget /\ \E p \in 0..MaxT, sh \in Shaders : SpawnEntity(p, sh)
    \/ Budget /\ \E p \in 0..MaxT : SpawnerUpdate(p)
    \/ Budget /\ DropEntity
    \/ Budget /\ DeleteSelected
    \/ Budget /\ Group
    \/ Budget /\ Copy
    \/ Budget /\ Paste
    \/ Budget /\ \E name \in Shaders : SelectShader(name)
    \/ Budget /\ Duplicate
    \/ Budget /\ DuplicatorUpdate
    \/ Budget /\ DuplicatorRelease
    \/ Budget /\ \E local \in BOOLEAN : ArrowDrag(local)
    \/ Budget /\ ArrowUpdate
    \/ Budget /\ ArrowDrop
    \/ Budget /\ RotationDrag
    \/ Budget /\ \E individual \in BOOLEAN : RotationUpdate(individual)
    \/ Budget /\ RotationDrop
    \/ Budget /\ \E h \in Hover : QuickRotate(h)
    \/ Budget /\ QuickRotateRelease
    \/ Budget /\ ScaleDrag
    \/ Budget /\ \E individual \in BOOLEAN : ScaleUpdate(individual)
    \/ Budget /\ ScaleDrop
    \/ Budget /\ \E h \in Hover : QuickScale(h)
    \/ Budget /\ QuickScaleRelease
    \/ Budget /\ \E h \in Hover : GrabStart(h)
    \/ Budget /\ GrabUpdate
    \/ Budget /\ \E click \in BOOLEAN : GrabRelease(click)
    \/ Budget /\ \E h \in Hover : RtvStart(h)
    \/ Budget /\ RtvUpdate
    \/ Budget /\ RtvRelease

Spec == Init /\ [][Next]_vars

\* The editor driven through its structural tools only, one placement or
\* duplicate-drag at a time.
StructuralNext ==
    \/ EditBudget /\ GotoScene
    \/ EditBudget /\ CtrlZ
    \/ EditBudget /\ CtrlY
    \/ EditBudget /\ \E c \in Hover, shift \in BOOLEAN, alt \in BOOLEAN : SelectorClick(c, shift, alt)
    \/ EditBudget /\ SelectAll
    \/ EditBudget /\ Idle(session) /\ \E p \in 0..MaxT, sh \in Shaders : SpawnEntity(p, sh)
    \/ EditBudget /\ \E p \in 0..MaxT : SpawnerUpdate(p)
    \/ EditBudget /\ DropEntity
    \/ EditBudget /\ DeleteSelected
    \/ EditBudget /\ Group
    \/ EditBudget /\ Copy
    \/ EditBudget /\ Paste
    \/ EditBudget /\ \E name \in Shaders : SelectShader(name)
    \/ EditBudget /\ Idle(session) /\ Duplicate
    \/ EditBudget /\ DuplicatorUpdate
    \/ EditBudget /\ DuplicatorRelease

StructuralSpec == Init /\ [][StructuralNext]_vars

\* The editor driven through its gizmos only, one session at a time: a
\* session is engaged when no other is.
GizmoNext ==
    \/ Budget /\ GotoScene
    \/ Budget /\ CtrlZ
    \/ Budget /\ CtrlY
    \/ Budget /\ \E c \in Hover, shift \in BOOLEAN, alt \in BOOLEAN : SelectorClick(c, shift, alt)
    \/ Budget /\ SelectAll
    \/ Budget /\ Group
    \/ Budget /\ Idle(session) /\ \E local \in BOOLEAN : ArrowDrag(local)
    \/ Budget /\ ArrowUpdate
    \/ Budget /\ ArrowDrop
    \/ Budget /\ Idle(session) /\ RotationDrag
    \/ Budget /\ \E individual \in BOOLEAN : RotationUpdate(individual)
    \/ Budget /\ RotationDrop
    \/ Budget /\ Idle(session) /\ ScaleDrag
    \/ Budget /\ \E individual \in BOOLEAN : ScaleUpdate(individual)
    \/ Budget /\ ScaleDrop

GizmoSpec == Init /\ [][GizmoNext]_vars

\* The editor driven through its quick tools only, one session at a time.
QuickNext ==
    \/ Budget /\ GotoScene
    \/ Budget /\ CtrlZ
    \/ Budget /\ CtrlY
    \/ Budget /\ \E c \in Hover, shift \in BOOLEAN, alt \in BOOLEAN : SelectorClick(c, shift, alt)
    \/ Budget /\ Idle(session) /\ \E h \in Hover : QuickRotate(h)
    \/ Budget /\ \E individual \in BOOLEAN : RotationUpdate(individual)
    \/ Budget /\ QuickRotateRelease
    \/ Budget /\ Idle(session) /\ \E h \in Hover : QuickScale(h)
    \/ Budget /\ \E individual \in BOOLEAN : ScaleUpdate(individual)
    \/ Budget /\ QuickScaleRelease
    \/ Budget /\ Idle(session) /\ \E h \in Hover : GrabStart(h)
    \/ Budget /\ GrabUpdate
    \/ Budget /\ \E click \in BOOLEAN : GrabRelease(click)
    \/ Budget /\ Idle(session) /\ \E h \in Hover : RtvStart(h)
    \/ Budget /\ RtvUpdate
    \/ Budget /\ RtvRelease

QuickSpec == Init /\ [][QuickNext]_vars

\* Where the pointer takes the helper along the scaled axis, in quarters of
\* a unit: every half unit up to MaxDrag units either way.
Points == {2 * k : k \in (-2 * MaxDrag)..(2 * MaxDrag)}

\* The editor driven through selection and the edge-scale tool; the menu
\* and the viewport are clicked between sessions, the keys pressed at any
\* time.
EdgeNext ==
    \/ EditBudget /\ Idle(session) /\ GotoScene
    \/ EditBudget /\ CtrlZ
    \/ EditBudget /\ CtrlY
    \/ EditBudget /\ Idle(session) /\ \E c \in Hover, shift \in BOOLEAN, alt \in BOOLEAN : SelectorClick(c, shift, alt)
    \/ EditBudget /\ SelectAll
    \/ EditBudget /\ Idle(session) /\ \E h \in Hover, normal \in {-1, 1}, alt \in BOOLEAN :
                                     BoxStart(h, normal, alt)
    \/ EditBudget /\ \E point \in Points : BoxUpdate(point)
    \/ EditBudget /\ BoxStop

EdgeSpec == Init /\ [][EdgeNext]_vars

\* The editor driven through the level menu, the hierarchy panel, placement,
\* deletion, the rotation gizmo and the undo keys.
PanelNext ==
    \/ EditBudget /\ GotoScene
    \/ EditBudget /\ LoadCell
    \/ EditBudget /\ \E io \in {"ok", "mkdir", "open"} : Save(io)
    \/ EditBudget /\ CtrlZ
    \/ EditBudget /\ CtrlY
    \/ EditBudget /\ \E y \in 0..(MaxRows - 1), control \in BOOLEAN : HierarchyClick(y, control)
    \/ EditBudget /\ Idle(session) /\ \E c \in Hover, shift \in BOOLEAN, alt \in BOOLEAN :
                                         SelectorClick(c, shift, alt)
    \/ EditBudget /\ Idle(session) /\ \E p \in 0..MaxT, sh \in Shaders : SpawnEntity(p, sh)
    \/ EditBudget /\ DropEntity
    \/ EditBudget /\ DeleteSelected
    \/ EditBudget /\ Idle(session) /\ RotationDrag
    \/ EditBudget /\ \E individual \in BOOLEAN : RotationUpdate(individual)
    \/ EditBudget /\ RotationDrop

PanelSpec == Init /\ [][PanelNext]_vars

\* The scene menu over cells without a file: clicks on its cells and the
\* adjacent-cell hotkeys.
NavNext ==
    \/ Budget /\ \E key \in {"w", "a", "s", "d"} : Navigate(key)
    \/ Budget /\ \E c \in Cells, shift \in BOOLEAN, alt \in BOOLEAN :
                     MenuClick(c[1], c[2], shift, alt)

NavSpec == Init /\ [][NavNext]_vars

\* The editor driven through selection, the menu keys and the inspector's
\* menu buttons.
MenuNext ==
    \/ Budget /\ ~current_scene /\ GotoScene
    \/ Budget /\ \E c \in Hover, shift \in BOOLEAN, alt \in BOOLEAN : SelectorClick(c, shift, alt)
    \/ Budget /\ \E key \in DOMAIN keybinds, modifier \in BOOLEAN : MenuKey(key, modifier)
    \/ Budget /\ \E value \in Menus : MenuButton(value)

MenuSpec == Init /\ [][MenuNext]_vars

\* A cell with prefabs placed from the prefab buttons, a PokeShape's edit
\* mode and viewport clicks.
PickNext ==
    \/ Budget /\ ~current_scene /\ GotoScene
    \/ Budget /\ Idle(session) /\ \E class \in {"WhiteCube", "PokeShape"}, p \in 0..MaxT :
                                      SpawnPrefab(class, p)
    \/ Budget /\ DropEntity
    \/ Budget /\ Idle(session) /\ Tab
    \/ Budget /\ Idle(session) /\ \E near \in Near, hit \in Hits, shift \in BOOLEAN, alt \in BOOLEAN :
                                      PickClick(near, hit, shift, alt)

PickSpec == Init /\ [][PickNext]_vars

\* A cell without a file, driven through placement, grouping, deletion,
\* the level menu and the undo keys.
ReplayNext ==
    \/ ReplayBudget /\ GotoScene
    \/ ReplayBudget /\ CtrlZ
    \/ ReplayBudget /\ CtrlY
    \/ ReplayBudget /\ SelectAll
    \/ ReplayBudget /\ Idle(session) /\ SpawnEntity(0, "lit_with_shadows_shader")
    \/ ReplayBudget /\ DropEntity
    \/ ReplayBudget /\ DeleteSelected
    \/ ReplayBudget /\ Group

ReplayInit == Init /\ ~path

ReplaySpec == ReplayInit /\ [][ReplayNext]_vars

\* LevelEditor.render_selection: the rotation it gives the gizmo, the pivot
\* of the manipulators, when the selection is not empty.
GizmoRotation(sel, m, origin, frame) ==
    IF frame = "local" /\ origin = "last" THEN m[sel[Len(sel)]].wt.rot ELSE 0

\* origin_mode_menu / local_global_menu, on_value_changed with the menus
\* now at origin and frame: render_selection().
MenuChanged(origin, frame) ==
    /\ selection # <<>>
    /\ last' = [Did("render") EXCEPT
                  !.pivot = [set |-> TRUE, origin |-> origin, frame |-> frame,
                             rot |-> GizmoRotation(selection, ent, origin, frame)],
                  !.anchor = [set |-> TRUE, origin |-> origin,
                              num |-> GizmoPosition(selection, ent, origin).num,
                              den |-> GizmoPosition(selection, ent, origin).den]]
    /\ UNCHANGED <<current_scene, scene_parent, path, file_rows, entities, selection,
                   ent, session, undo_data, undo_index, clipboard>>

\* The editor driven through clicks, the rotation gizmo, the spawner and
\* the two menus.
FrameNext ==
    \/ Budget /\ GotoScene
    \/ Budget /\ Idle(session) /\ \E p \in 0..MaxT : SpawnEntity(p, "lit_with_shadows_shader")
    \/ Budget /\ DropEntity
    \/ Budget /\ \E c \in Hover, shift \in BOOLEAN, alt \in BOOLEAN : SelectorClick(c, shift, alt)
    \/ Budget /\ Idle(session) /\ RotationDrag
    \/ Budget /\ \E individual \in BOOLEAN : RotationUpdate(individual)
    \/ Budget /\ RotationDrop
    \/ Budget /\ Idle(session)
              /\ \E origin \in {"last", "center", "individual"}, frame \in {"local", "global"} :
                     MenuChanged(origin, frame)

FrameSpec == Init /\ [][FrameNext]_vars

\* The editor driven through clicks, control+a and the rotation and
\* translation gizmos, over several sessions; while the mouse button holds
\* a gizmo only the keyboard is used.
SessionNext ==
    \/ ReplayBudget /\ Idle(session) /\ GotoScene
    \/ ReplayBudget /\ Idle(session)
                    /\ \E c \in Hover, shift \in BOOLEAN, alt \in BOOLEAN : SelectorClick(c, shift, alt)
    \/ ReplayBudget /\ SelectAll
    \/ ReplayBudget /\ Idle(session) /\ RotationDrag
    \/ ReplayBudget /\ \E individual \in BOOLEAN : RotationUpdate(individual)
    \/ ReplayBudget /\ RotationDrop
    \/ ReplayBudget /\ Idle(session) /\ \E local \in BOOLEAN : ArrowDrag(local)
    \/ ReplayBudget /\ ArrowUpdate
    \/ ReplayBudget /\ ArrowDrop

SessionSpec == Init /\ [][SessionNext]_vars

\* One cell entered once, then recorded operations and control+z only.
UnwindNext ==
    \/ EditBudget /\ ~current_scene /\ GotoScene
    \/ EditBudget /\ CtrlZ
    \/ EditBudget /\ \E c \in Hover, shift \in BOOLEAN, alt \in BOOLEAN : SelectorClick(c, shift, alt)
    \/ EditBudget /\ Idle(session) /\ \E p \in 0..MaxT, sh \in Shaders : SpawnEntity(p, sh)
    \/ EditBudget /\ DropEntity
    \/ EditBudget /\ DeleteSelected
    \/ EditBudget /\ Copy
    \/ EditBudget /\ Paste
    \/ EditBudget /\ \E name \in Shaders : SelectShader(name)
    \/ EditBudget /\ Idle(session) /\ Duplicate
    \/ EditBudget /\ DuplicatorRelease

UnwindSpec == Init /\ [][UnwindNext]_vars

\* The editor driven through the quick grabber's single-axis shortcuts and
\* the duplicator.
AxisNext ==
    \/ Budget /\ GotoScene
    \/ Budget /\ CtrlZ
    \/ Budget /\ SelectAll
    \/ Budget /\ Idle(session) /\ \E h \in Hover, q \in {0, 1, 3, 4} : GrabAxisStart(h, q)
    \/ Budget /\ \E point \in {"none", "hit"}, control \in BOOLEAN : GrabAxisUpdate(point, control)
    \/ Budget /\ \E click \in BOOLEAN : GrabRelease(click)
    \/ Budget /\ Idle(session) /\ Duplicate
    \/ Budget /\ \E point \in {"none", "hit"} : DuplicatorTick(point)
    \/ Budget /\ DuplicatorRelease

AxisSpec == Init /\ [][AxisNext]_vars

\* The editor driven through clicks, control+a and the selection box.
BoxNext ==
    \/ Budget /\ GotoScene
    \/ Budget /\ SelectAll
    \/ Budget /\ \E x \in ScreenPoints, c \in Hover, shift \in BOOLEAN, alt \in BOOLEAN :
                     BoxPress(x, c, shift, alt)
    \/ Budget /\ \E x \in ScreenPoints : BoxRelease(x)

BoxSpec == Init /\ [][BoxNext]_vars

\* held_keys as the quick tools read them: a shortcut key is down from the
\* press that engaged its tool.
Held(s, key) ==
    CASE key = "r" -> s.qrot # NoEntity
      [] key = "s" -> s.scale /\ ~s.selector
      [] key = "d" -> s.grab # NoEntity
      [] key = "t" -> s.rtv # NoEntity

\* QuickRotator.input 'r up', RotateRelativeToView.input 't up' and
\* QuickScaler.input 's up' while control, shift or alt is held: the handler
\* returns before it looks at the key.
ReleaseIgnored(key) ==
    /\ \/ key = "r" /\ session.qrot # NoEntity
       \/ key = "t" /\ session.rtv # NoEntity
       \/ key = "s" /\ Held(session, "s")
    /\ last' = DidUpdate(key \o "_up_ignored")
    /\ UNCHANGED <<Frame, entities, selection, ent, session, undo_data, undo_index,
                   clipboard>>

\* The editor driven through its quick tools and control+a, every key event
\* delivered to every tool: a press engages unless the tool's own test of
\* held_keys turns it away.
MixNext ==
    \/ Budget /\ GotoScene
    \/ Budget /\ SelectAll
    \/ Budget /\ ~Held(session, "s") /\ ~Held(session, "r") /\ \E h \in Hover : GrabStart(h)
    \/ Budget /\ GrabUpdate
    \/ Budget /\ \E click \in BOOLEAN : GrabRelease(click)
    \/ Budget /\ ~Held(session, "s") /\ \E h \in Hover : QuickRotate(h)
    \/ Budget /\ \E individual \in BOOLEAN : RotationUpdate(individual)
    \/ Budget /\ ~Held(session, "s") /\ QuickRotateRelease
    \/ Budget /\ ~Held(session, "r") /\ ~Held(session, "d") /\ ~Held(session, "t")
              /\ \E h \in Hover : QuickScale(h)
    \/ Budget /\ \E individual \in BOOLEAN : ScaleUpdate(individual)
    \/ Budget /\ ~Held(session, "d") /\ QuickScaleRelease
    \/ Budget /\ ~Held(session, "s") /\ ~Held(session, "r") /\ \E h \in Hover : RtvStart(h)
    \/ Budget /\ RtvUpdate
    \/ Budget /\ ~Held(session, "s") /\ ~Held(session, "r") /\ RtvRelease
    \/ Budget /\ \E key \in {"r", "t", "s"} : ReleaseIgnored(key)

MixSpec == Init /\ [][MixNext]_vars

\* The editor driven through the left button: a press goes to the gizmo
\* arrow under the pointer and then to the quick grabber, which takes the
\* entity it finds near the pointer.
ClickNext ==
    \/ Budget /\ ~current_scene /\ GotoScene
    \/ Budget /\ Idle(session)
              /\ \E c \in Hover, shift \in BOOLEAN, alt \in BOOLEAN : SelectorClick(c, shift, alt)
    \/ Budget /\ Idle(session) /\ \E local \in BOOLEAN : ArrowDrag(local)
    \/ Budget /\ ArrowUpdate
    \/ Budget /\ ArrowDrop
    \/ Budget /\ \E h \in Hover : GrabStart(h)
    \/ Budget /\ GrabNudge
    \/ Budget /\ GrabUpdate
    \/ Budget /\ \E click \in BOOLEAN : GrabRelease(click)

ClickSpec == Init /\ [][ClickNext]_vars

\* ---------------------------------------------------------------- claims
\* What a step leaves behind, as undo() and redo() find it.
UndoNow == undo(entities, selection, ent, Used, undo_data, undo_index)

UndoAfter == undo(entities', selection', ent', Used', undo_data', undo_index')

RedoAfter == redo(entities', selection', ent', Used', undo_data', undo_index')

\* The attributes of the registry's entities, by registry index.
View(reg, m) == [k \in 1..Len(reg) |-> [wt |-> m[reg[k]].wt, shader |-> m[reg[k]].shader]]

\* The step is a call of record_undo: a handler other than undo and redo
\* touched the log.
Recorded ==
    /\ last'.op \notin {"undo", "redo"}
    /\ undo_index' # undo_index \/ undo_data' # undo_data

\* C1: the cursor always satisfies -1 <= undo_index <= len(undo_data) - 1.
C1_CursorInRange ==
    /\ -1 <= undo_index
    /\ undo_index <= Len(undo_data) - 1

\* A record was undone and redone: the cursor is back on the last entry.
C1_Witness ==
    /\ last.op = "redo"
    /\ undo_index = last.idx + 1
    /\ undo_index = Len(undo_data) - 1

\* C2: record_undo keeps the entries 0..cursor, appends one record after
\* them and leaves the cursor on it; the undone entries are gone, and a redo
\* issued right after changes nothing.
C2_RecordTruncatesAndAppends ==
    [][Recorded =>
          /\ Len(undo_data') = undo_index + 2
          /\ SubSeq(undo_data', 1, undo_index + 1) = SubSeq(undo_data, 1, undo_index + 1)
          /\ undo_index' = undo_index + 1
          /\ RedoAfter = [reg |-> entities', sel |-> selection', m |-> ent',
                          idx |-> undo_index']]_vars

\* A record was appended while an undone entry was still in the log.
C2_Witness ==
    /\ last.op \notin {"init", "undo", "redo"}
    /\ undo_index = last.idx + 1
    /\ last.len > last.idx + 1
    /\ Len(undo_data) = undo_index + 1

\* C3: undo() with the cursor below 0, and redo() with cursor + 1 past the
\* end of the log, change neither the registry, nor an entity's attributes,
\* nor the selection, nor the log, nor the cursor.
C3_GuardedCallsAreNoOps ==
    [][/\ (last'.op = "undo" /\ undo_index < 0) =>
              UNCHANGED <<entities, selection, ent, undo_data, undo_index>>
       /\ (last'.op = "redo" /\ undo_index + 1 >= Len(undo_data)) =>
              UNCHANGED <<entities, selection, ent, undo_data, undo_index>>]_vars

\* redo() was called with every entry of a non-empty log applied.
C3_Witness ==
    /\ last.op = "redo"
    /\ last.len > 0
    /\ last.idx = last.len - 1
    /\ entities # <<>>

\* The registry's transforms differ from those at the engage of the session.
NetChange ==
    /\ last.base.set
    /\ Len(entities) = Len(last.base.t)
    /\ Transforms(entities, ent) # last.base.t

\* C4: N manipulator edits, each released with a net change, followed by N
\* undos leave every entity with the transform it had before the first edit.
C4_EditsThenUndosRestore ==
    (last.run.on /\ last.run.n > 0 /\ last.run.k = last.run.n) =>
        Transforms(entities, ent) = last.run.start

\* The objects left for the clones a replay constructs.
FreeAfter == Cardinality(Ids \ Used')

\* C5: for every kind of record, undo() followed at once by redo() gives
\* back the registry (length, order, and the attributes at every index), the
\* log and the cursor that undo() found.
C5_UndoThenRedoReproduces ==
    [][(/\ last'.op = "undo"
        /\ undo_index >= 0
        /\ FreeAfter >= ClonesNeeded(undo_data[undo_index + 1], TRUE)) =>
          /\ View(RedoAfter.reg, RedoAfter.m) = View(entities, ent)
          /\ undo_data' = undo_data
          /\ RedoAfter.idx = undo_index]_vars

\* C6: deleting the k selected entities and calling undo() brings back
\* exactly k entities, and the registry then has the length it had and, at
\* every index, an entity with the transform the entity there had, whatever
\* the order of the selection.
C6_DeleteThenUndoRestores ==
    [][(/\ last'.op = "delete"
        /\ undo_index' # undo_index
        /\ FreeAfter >= Len(selection)) =>
          /\ Len(UndoAfter.reg) = Len(entities') + Len(selection)
          /\ Len(UndoAfter.reg) = Len(entities)
          /\ Transforms(UndoAfter.reg, UndoAfter.m) = Transforms(entities, ent)]_vars

GizmoReleaseOps == {"arrow_drop", "rotation_drop", "scale_drop"}

\* C7: the release of a translate, rotate or scale drag appends a record if
\* and only if some selected entity's transform differs from the one it had
\* at engage.
C7_RecordIffChanged ==
    (last.op \in GizmoReleaseOps /\ last.base.set /\ Len(entities) = Len(last.base.t)) =>
        ((undo_index = last.idx + 1) <=>
             \E k \in 1..Len(entities) :
                 /\ InSeq(selection, entities[k])
                 /\ ent[entities[k]].wt # last.base.t[k])

\* The top record of the log holds one entry per selected entity.
OneEntryPerSelected ==
    LET top == undo_data[undo_index + 1]
    IN  /\ top.kind = "changes"
        /\ Len(top.changes) = Len(selection)
        /\ \A k \in 1..Len(selection) :
               top.changes[k].id = IndexOf(entities, selection[k]) - 1

\* C8: a session over several selected entities appends exactly one record,
\* with one entry per selected entity, and a single undo() gives all of them
\* their transforms back.
C8_OneRecordPerSession ==
    (last.op \in GizmoReleaseOps /\ Len(selection) >= 2 /\ NetChange) =>
        /\ undo_index = last.idx + 1
        /\ Len(undo_data) = last.idx + 2
        /\ OneEntryPerSelected
        /\ Transforms(UndoNow.reg, UndoNow.m) = last.base.t

\* C9: when a manipulator session is released, the transform changes it
\* made are covered by a record: undo() gives every registry entity the
\* transform it had before the session.
C9_ManipulatorChangesAreRecorded ==
    (last.op \in ReleaseOps /\ NetChange) =>
        /\ undo_index = last.idx + 1
        /\ Transforms(UndoNow.reg, UndoNow.m) = last.base.t

\* C10: spawn, duplicate, paste, delete and group each append a record, and
\* undo() then gives the registry its previous length and order.
C10_RegistryChangesAreRecorded ==
    [][(\/ last'.op \in {"duplicate", "paste", "delete", "group"} /\ entities' # entities
        \/ last'.op = "drop_entity" /\ session'.spawn # session.spawn) =>
          /\ undo_index' = undo_index + 1
          /\ FreeAfter >= ClonesNeeded(undo_data'[undo_index' + 1], FALSE) =>
                 Transforms(UndoAfter.reg, UndoAfter.m) =
                     IF last'.op = "drop_entity"
                     THEN Transforms(RemoveFirst(entities, session.spawn), ent)
                     ELSE Transforms(entities, ent)]_vars

\* C11: every entity of the selection is an element of the registry, in
\* every reachable state, edge-scale sessions included.
C11_SelectionWithinRegistry ==
    \A k \in 1..Len(selection) : InSeq(entities, selection[k])

ActiveSessions(s) ==
    {k \in {"arrow", "rot", "scale", "plane"} : s[k]}
        \cup {k \in {"grab", "rtv", "box"} : s[k] # NoEntity}

\* C13: at most one manipulator or drag session is engaged in any reachable
\* state, whatever the order of key and pointer events.
C13_OneSessionAtATime == Cardinality(ActiveSessions(session)) <= 1

\* C14: while a manipulator or drag session is engaged, a selection click
\* or select-all leaves the selection as it was.
C14_SelectionFrozenWhileDragging ==
    [][(~Idle(session) /\ last'.op \in {"select", "select_all"})
          => selection' = selection]_vars

\* C15: after a session is released, every registry entity has the parent
\* it had immediately before the engage.
C15_ParentsRestoredOnRelease ==
    (last.op \in ReleaseOps /\ last.base.set /\ Len(last.base.p) = Len(entities))
        => \A k \in 1..Len(entities) : ent[entities[k]].parent = last.base.p[k]

\* C16: when the release event of an engaged quick tool has been handled,
\* with or without a modifier key held, that tool's session is over and no
\* entity is left under its pivot.
C16_ReleaseEndsTheSession ==
    /\ last.op \in {"quick_rotate_release", "r_up_ignored"}
          => ~session.rot /\ Under(ent, Rotator) = {}
    /\ last.op \in {"quick_scale_release", "s_up_ignored"}
          => ~session.scale /\ Under(ent, Scaler) = {}
    /\ last.op \in {"rtv_release", "t_up_ignored"}
          => session.rtv = NoEntity /\ Under(ent, RotationHelper) = {}
    /\ last.op = "grab_release"
          => session.grab = NoEntity /\ Under(ent, OffsetHelper) = {}

\* C17: after a load of a cell that has a file, the load of goto_scene
\* included, the undo log is empty and the cursor is -1.
C17_LoadResetsUndo ==
    (last.op \in {"goto_scene", "load"} /\ path)
        => undo_data = <<>> /\ undo_index = -1

\* C18: after load() is called on a cell that has a file, the registry holds
\* one entity per data row, in row order, each as the row builds it.
C18_LoadReplacesRegistry ==
    (last.op = "load" /\ path)
        => /\ Len(entities) = Len(file_rows)
           /\ \A k \in 1..Len(entities) : ent[entities[k]] = Loaded(file_rows[k])

\* C19: after save(), loading the rows written gives as many entities as
\* the registry holds and, entity by entity, the same class, shader,
\* collider type and transform under the parent.
C19_SaveThenLoadReproduces ==
    (last.op = "save" /\ path /\ \A k \in 1..Len(entities) : ent[entities[k]].alive)
        => /\ Len(file_rows) = Len(entities)
           /\ \A k \in 1..Len(entities) :
                 LET l == Loaded(file_rows[k])
                     e == ent[entities[k]]
                 IN  /\ l.class = e.class
                     /\ l.shader = e.shader
                     /\ l.collider_type = e.collider_type
                     /\ l.wt = Repr(ent, entities[k]).t

\* C20: a load that runs appends one entity per data row, and an
\* ErrorEntity for every row whose class is not imported or whose
\* constructor raises.
C20_LoadKeepsEveryRow ==
    [][(last'.op \in {"goto_scene", "load"} /\ path /\ ~scene_parent)
          => /\ Len(entities') = Len(file_rows)
             /\ \A k \in 1..Len(file_rows) :
                   (file_rows[k].class \notin ImportedClasses \/ file_rows[k].class = "Raising")
                       => ent'[entities'[k]].class = "ErrorEntity"]_vars

\* A file with a row of either kind has been loaded.
C20_Witness ==
    /\ last.op = "goto_scene"
    /\ Len(entities) = Len(file_rows)
    /\ \E j, k \in 1..Len(file_rows) :
          /\ file_rows[j].class \notin ImportedClasses
          /\ file_rows[k].class = "Raising"
          /\ ent[entities[j]].class = "ErrorEntity"
          /\ ent[entities[k]].class = "ErrorEntity"

\* C21: a save that fails on the file system leaves the registry, the
\* selection, the path, the loaded flag and the current scene as they were.
C21_FailedSaveChangesNothing ==
    [][last'.op = "save_failed"
          => UNCHANGED <<entities, selection, ent, path, scene_parent, current_scene>>]_vars

\* The registry entities a removing replay of record d is to remove: those
\* at the indices of d that the registry has.
ValidTargets(d) == {entities[d.ids[k] + 1] : k \in {j \in 1..Len(d.ids) : d.ids[j] < Len(entities)}}

\* C22: when undo() replays a delete-entities record, or redo() a
\* restore-entities record, every entity at an index the registry still has
\* is removed, whether or not another index of the record is out of range.
C22_ValidEntriesStillApplied ==
    [][/\ (last'.op = "undo" /\ ~UndoGuard(undo_index)
             /\ undo_data[undo_index + 1].kind = "delete entities")
          => \A e \in ValidTargets(undo_data[undo_index + 1]) : ~InSeq(entities', e)
       /\ (last'.op = "redo" /\ ~RedoGuard(undo_data, undo_index)
             /\ undo_data[undo_index + 2].kind = "restore entities")
          => \A e \in ValidTargets(undo_data[undo_index + 2]) : ~InSeq(entities', e)]_vars

\* C23: the release of a rotate or scale session by the gizmo's own input
\* handler, which has no try of its own, runs drop() to its end: no
\* selected entity lacks an original_parent, a registry index or a snapshot.
C23_GizmoReleaseDoesNotRaise ==
    [][last'.op \in {"rotation_drop", "scale_drop"}
          => PivotRelease(entities, ent, selection, 1, <<>>).ok]_vars

\* The registry entities whose screen position lies strictly inside the
\* rectangle from the press at x0 to the release at x1.
Inside(x0, x1) ==
    {e \in SeqSet(entities) :
        /\ ScreenX(ent, e) > (IF x1 < x0 THEN x1 ELSE x0)
        /\ ScreenX(ent, e) < (IF x1 < x0 THEN x0 ELSE x1)}

\* C24: a completed box-select leaves exactly the entities inside the
\* rectangle selected in replace mode, the selection from before the
\* gesture with them in add mode, and without them in subtract mode.
C24_BoxSelectCombines ==
    [][\A x \in ScreenPoints :
          (last'.op = "box_select" /\ BoxRelease(x))
             => LET I == Inside(session.sbox.x, x)
                    old == SeqSet(last.sel0)
                IN  SeqSet(selection') =
                       (CASE session.sbox.mode = "new" -> I
                          [] session.sbox.mode = "add" -> old \cup I
                          [] session.sbox.mode = "subtract" -> old \ I)]_vars

C26_PivotFollowsFrameMode ==
    last.pivot.set =>
       /\ last.pivot.frame = "local"
             => last.pivot.rot = ent[selection[Len(selection)]].wt.rot
       /\ last.pivot.frame = "global" => last.pivot.rot = 0

\* C27: the record a gizmo release emits has one tuple for each entity
\* that was selected at the engage of the session and for no other, and
\* the old value of a tuple is the transform its entity had at that engage.
C27_RecordIsOfTheEngage ==
    [][(/\ last'.op \in {"rotation_drop", "arrow_drop"}
        /\ last.eng.set
        /\ undo_index' = undo_index + 1)
          => LET cs == undo_data'[undo_index' + 1].changes
             IN  /\ {entities[cs[k].id + 1] : k \in 1..Len(cs)} = SeqSet(last.eng.s)
                 /\ Len(cs) = Len(last.eng.s)
                 /\ \A k \in 1..Len(cs) : cs[k].old = TVal(last.eng.t[cs[k].id + 1])]_vars

\* The registry as the cell's file gives it.
InitialView ==
    IF path THEN [k \in 1..Len(file_rows) |->
                     [wt |-> Loaded(file_rows[k]).wt, shader |-> Loaded(file_rows[k]).shader]]
    ELSE <<>>

\* C28: after recorded attribute edits, deletions, spawns, pastes and
\* duplications, once undo() has taken the cursor back to the start of the
\* log the registry has its initial length and order and every entity its
\* initial attributes.
C28_FullUnwindRestores ==
    (last.op = "undo" /\ last.idx = 0 /\ undo_index = -1 /\ Idle(session))
        => View(entities, ent) = InitialView

\* C29: on every tick of a single-axis translate drag, with or without the
\* snap modifier, the target's position on a locked axis is the one it had
\* at engage.
C29_LockedAxesKeepTheirValue ==
    (last.op = "grab_axis_update" /\ session.lock.on) => session.lock.y = session.lock.y0

\* C30: a tick of an engaged drag on which the pointer ray does not meet
\* the constraint plane changes no entity, no helper's children, no part of
\* the session and nothing of the log.
C30_MissedTickIsNoOp ==
    [][last'.op \in {"grab_axis_miss", "duplicator_miss"}
          => UNCHANGED <<entities, selection, ent, session, undo_data, undo_index>>]_vars

\* A missed tick of a single-axis drag with its target under the helper.
C30_Witness ==
    /\ last.op = "grab_axis_miss"
    /\ session.grab # NoEntity
    /\ session.grab \in Under(ent, OffsetHelper)

\* C31: after a change of the selection that leaves it non-empty the gizmo
\* is at the world position of the entity selected last in origin mode
\* 'last', and at the mean of the selected entities' world positions in
\* origin mode 'center'.
C31_AnchorFollowsSelection ==
    [][(last.anchor.set /\ selection' # selection /\ selection' # <<>>)
          => /\ last'.anchor.origin = "last"
                   => /\ last'.anchor.num = ent'[selection'[Len(selection')]].wt.pos
                      /\ last'.anchor.den = 1
             /\ last'.anchor.origin = "center"
                   => last'.anchor.num * Len(selection')
                         = SumPos(ent', selection', 1) * last'.anchor.den]_vars

\* C32: a click on a registry entity makes it the whole selection without a
\* modifier, appends it if absent with shift, and takes it out of the
\* selection with alt; a click on empty space without a modifier clears the
\* selection; control+a makes the selection the registry, in its order.
C32_ClickModes ==
    [][/\ \A c \in Hover, shift \in BOOLEAN, alt \in BOOLEAN :
             SelectorClick(c, shift, alt) =>
                /\ (c # NoEntity /\ ~shift /\ ~alt) => selection' = <<c>>
                /\ (c # NoEntity /\ shift /\ ~alt) =>
                       selection' = IF InSeq(selection, c) THEN selection
                                    ELSE Append(selection, c)
                /\ (c # NoEntity /\ alt) => ~InSeq(selection', c)
                /\ (c = NoEntity /\ ~shift /\ ~alt) => selection' = <<>>
       /\ SelectAll => selection' = entities]_vars

\* C33: the entity a click's pick resolution returns is selectable, from the
\* proximity pass as well as from the collider fallback.
C33_PickIsSelectable ==
    [][\A near \in Near, hit \in Hits, shift \in BOOLEAN, alt \in BOOLEAN :
          PickClick(near, hit, shift, alt) =>
              LET picked == get_hovered_entity(entities, ent, near, hit)
              IN  picked # NoEntity => Selectable(ent, picked)]_vars

\* C34: the coordinates an adjacent-cell hotkey hands goto_scene, and the
\* current cell's coordinates after any menu click or hotkey, are inside the
\* grid.
C34_CoordinatesInsideGrid ==
    [][/\ \A key \in {"w", "a", "s", "d"} :
             Navigate(key) => Adjacent(session.coordinates, key) \in Cells
       /\ current_scene' => session'.coordinates \in Cells]_vars

\* The world position, in quarters of a unit, of the face of the target
\* opposite the hovered one when the session of the edge-scale tool began.
AnchorAtEngage ==
    LET t == last.eng.t[IndexOf(entities, session.box)]
    IN  4 * t.pos - session.edge.normal * (Size(t.scl) \div 2)

\* C35: on every update tick of an edge-anchored scale session the target's
\* centre is midway between the helper and the face opposite the grabbed
\* one as it was at the engage, and its size along the axis is the distance
\* between the two, as long as the target is in the registry.
C35_OppositeFaceStays ==
    [][(/\ session.edge.on /\ ~session.edge.center
        /\ InSeq(entities, session.box)
        /\ last'.op = "box_update")
          => /\ 2 * session'.edge.pos = AnchorAtEngage + session'.edge.h
             /\ WorldSize(session'.edge) = Abs(session'.edge.h - AnchorAtEngage)]_vars

\* An edge-anchored session whose helper was dragged inwards past half the
\* target's size, on a target away from the origin.
C35_Witness ==
    /\ last.op = "box_update"
    /\ session.edge.on /\ ~session.edge.center
    /\ session.edge.pos # 0
    /\ WorldSize(session.edge) = 2
    /\ session.edge.normal = -1

\* C36: with no menu enabled, a selection and no modifier held, the key of
\* a menu makes that menu the handler's state and enables it.
C36_KeyOpensMenu ==
    [][\A key \in {"m", "v", "n", "b"} :
          (/\ session.menu.enabled \cap Menus = {}
           /\ selection # <<>>
           /\ MenuKey(key, FALSE))
             => /\ session'.menu.state = keybinds[key]
                /\ keybinds[key] \in session'.menu.enabled]_vars

\* C37: no entity is in the selection more than once.
C37_SelectionHasNoDuplicate ==
    \A i, j \in 1..Len(selection) : i # j => selection[i] # selection[j]

\* C38: no entity is in the registry more than once.
C38_RegistryHasNoDuplicate ==
    \A i, j \in 1..Len(entities) : i # j => entities[i] # entities[j]

\* ------------------------------------------------------- the MER2 editor
\* A step of the MER2 editor: only its own state changes.
Mer(op, mer) ==
    /\ Commit(entities, selection, ent, [session EXCEPT !.mer = mer])
    /\ last' = Did(op)
    /\ UNCHANGED <<Frame, undo_data, undo_index, clipboard>>

\* load() of a scene.py that holds one object at position p: the object is
\* created where its repr puts it and gets a new DebugBehaviour.
load(p) ==
    /\ ~session.mer.objects
    /\ Mer("load", [session.mer EXCEPT !.objects = TRUE, !.selected = FALSE,
                                        !.position = p, !._last_state = NoMer._last_state,
                                        !.dragging = FALSE])

\* DebugBehaviour.toggle through on_click, a plain click on the object: it
\* becomes the selection and gets a new TransformGizmo.
toggle ==
    /\ session.mer.objects
    /\ Mer("toggle", [session.mer EXCEPT !.selected = TRUE, !.dragging = FALSE])

\* TransformGizmo.input with the pointer on an arrow of the gizmo
TransformGizmoInput(key) ==
    /\ session.mer.selected
    /\ Mer(key, [session.mer EXCEPT !.dragging = (key = "left mouse down")])

\* TransformGizmo.update while dragging: the target follows the pointer by
\* delta along the selected axis.
TransformGizmoUpdate(delta) ==
    /\ session.mer.dragging
    /\ session.mer.position + delta \in -MaxT..MaxT
    /\ Mer("gizmo_update", [session.mer EXCEPT !.position = @ + delta])

\* DebugBehaviour.input with alt held and the scale modifier not: a key that
\* steps the selected object by dx (0 for a key that is no arrow), and the
\* record of the move.
DebugBehaviourInput(dx) ==
    /\ session.mer.selected
    /\ session.mer.position + dx \in -MaxT..MaxT
    /\ Len(session.mer.undo_stack) < MaxLog
    /\ LET new_pos == session.mer.position + dx
           old_pos == session.mer._last_state
       IN  Mer("alt_arrow",
               IF new_pos # old_pos
               THEN [session.mer EXCEPT
                        !.position = new_pos,
                        !.undo_stack = Append(@, [type |-> "move", from |-> old_pos,
                                                  to |-> new_pos]),
                        !.redo_stack = <<>>,
                        !._last_state = new_pos]
               ELSE [session.mer EXCEPT !.position = new_pos])

\* _apply_undo for a 'move' record
_apply_undo(mer, record) == [mer EXCEPT !.position = record.from]

\* input, 'control z' with a record on the stack
ControlZ ==
    /\ session.mer.undo_stack # <<>>
    /\ LET record == session.mer.undo_stack[Len(session.mer.undo_stack)]
           popped == [session.mer EXCEPT
                         !.undo_stack = SubSeq(@, 1, Len(@) - 1),
                         !.redo_stack = Append(@, record)]
       IN  Mer("control_z", _apply_undo(popped, record))

MerNext ==
    \/ Budget /\ \E p \in 0..MaxT : load(p)
    \/ Budget /\ toggle
    \/ Budget /\ \E key \in {"left mouse down", "left mouse up"} : TransformGizmoInput(key)
    \/ Budget /\ \E delta \in {-1, 1} : TransformGizmoUpdate(delta)
    \/ Budget /\ \E dx \in {-1, 0, 1} : DebugBehaviourInput(dx)
    \/ Budget /\ ControlZ

MerSpec == Init /\ [][MerNext]_vars

\* C39: a quick-grab released as a click (the left button, inside the click
\* time window, the target less than 0.1 from its snapshot) is cancelled:
\* the target is at the world position the grabber took at the engage, under the
\* parent it had before the press that engaged the grab, the log and its
\* cursor are as they were, the selection is the target alone, and the
\* grabber has no target.
C39_ClickCancelsGrab ==
    [][(/\ session.grab # NoEntity
        /\ InSeq(entities, session.grab)
        /\ last.eng.set
        /\ GrabNear(ent, session)
        /\ GrabRelease(TRUE))
          => LET e == session.grab
                 k == IndexOf(entities, e)
             IN  /\ ent'[e].wt.pos = ent[e].gsnap.t.pos
                 /\ ~session'.lock.nudged
                 /\ ent'[e].parent = last.eng.p[k]
                 /\ undo_data' = undo_data
                 /\ undo_index' = undo_index
                 /\ selection' = <<e>>
                 /\ session'.grab = NoEntity]_vars

\* C40: in the MER2 editor every record a move appends carries as 'from'
\* the position the object had immediately before the move, so that the
\* undo of the record puts the object back there; this for an object's
\* first recorded move and for a move that follows a gizmo drag as well.
C40_FromIsPreEditValue ==
    [][\A dx \in {-1, 0, 1} :
          (/\ DebugBehaviourInput(dx)
           /\ Len(session'.mer.undo_stack) > Len(session.mer.undo_stack))
             => /\ session'.mer.undo_stack[Len(session'.mer.undo_stack)].from
                       = session.mer.position
                /\ _apply_undo(session'.mer,
                               session'.mer.undo_stack[Len(session'.mer.undo_stack)]).position
                       = session.mer.position]_vars

====
